---- MODULE Spec2Model ----
(***************************************************************************)
(* A model of the FARSEER query compiler (farseer/compile/cmpl.py) and of  *)
(* the part of the term algebra (farseer/term/trm.py, farseer/kind/knd.py) *)
(* it compiles.  Names and SQL text are strings, exactly as in the code;   *)
(* Python objects are records; Python lists are sequences.  A raised       *)
(* exception is the value Exc(<exception class>).                          *)
(***************************************************************************)
EXTENDS Integers, Sequences, FiniteSets, TLC

(***************************************************************************)
(* The state: the module global table_num of cmpl.py; the arguments the    *)
(* caller compiles (call.term, call.var, call.order); the plan object the  *)
(* caller holds; the last operation called (last_op) with, for gen_sql,    *)
(* its dialect and the text it returned; and the plan the first cmpl call  *)
(* returned (baseline), with the number of cmpl calls made so far (calls). *)
(* When several threads call cmpl, threads holds for each of them its      *)
(* arguments, its position in cmpl and the value cmpl returned to it.      *)
(* A caller of the term library alone holds in algebra the function it     *)
(* calls, the arguments, and the value returned or the exception raised.   *)
(***************************************************************************)
VARIABLES table_num, call, plan, last_op, last_dialect, sql, baseline, calls, threads, algebra

vars ==
    <<table_num, call, plan, last_op, last_dialect, sql, baseline, calls, threads, algebra>>

(***************************************************************************)
(* Python string primitives used by the compiler                           *)
(***************************************************************************)

\* s[i:i+n] == t, for 1-based i
MatchAt(s, t, i) ==
    /\ i >= 1
    /\ i + Len(t) - 1 <= Len(s)
    /\ SubSeq(s, i, i + Len(t) - 1) = t

\* the 1-based positions at which t occurs in s
Occurrences(s, t) == {i \in 1..Len(s) : MatchAt(s, t, i)}

SetMin(S) == CHOOSE m \in S : \A x \in S : m <= x

\* str.replace(old, new, 1)
ReplaceFirst(s, old, new) ==
    IF old = "" THEN new \o s
    ELSE IF Occurrences(s, old) = {} THEN s
    ELSE LET i == SetMin(Occurrences(s, old))
         IN SubSeq(s, 1, i - 1) \o new \o SubSeq(s, i + Len(old), Len(s))

\* re.sub(' ', '_', s)
RECURSIVE SubSpaces(_)
SubSpaces(s) ==
    IF Occurrences(s, " ") = {} THEN s
    ELSE SubSpaces(ReplaceFirst(s, " ", "_"))

\* s[0:n] == p
StartsWith(s, p) == MatchAt(s, p, 1)

Digits == {"0", "1", "2", "3", "4", "5", "6", "7", "8", "9"}

IsDigitAt(s, i) == i >= 1 /\ i <= Len(s) /\ SubSeq(s, i, i) \in Digits

\* the start positions of the matches of the regular expression tmp[0-9]+
TmpMatches(s) == {i \in 1..Len(s) : MatchAt(s, "tmp", i) /\ IsDigitAt(s, i + 3)}

\* re.sub(r"(tmp[0-9]+)", r"#\1", s): a '#' is put before every match.
\* Two matches never overlap, so the rewriting is done from the last match
\* to the first.
RECURSIVE InsertHashes(_, _)
InsertHashes(s, P) ==
    IF P = {} THEN s
    ELSE LET i == CHOOSE m \in P : \A x \in P : m >= x
         IN InsertHashes(SubSeq(s, 1, i - 1) \o "#" \o SubSeq(s, i, Len(s)), P \ {i})

HashTmp(s) == InsertHashes(s, TmpMatches(s))

\* infix % tuple(args) for a template that holds only %s conversions;
\* the result is <<TRUE, text>> or <<FALSE, "">> when Python raises TypeError
RECURSIVE FormatPct(_, _)
FormatPct(tpl, args) ==
    IF Occurrences(tpl, "%s") = {}
    THEN IF args = <<>> THEN <<TRUE, tpl>> ELSE <<FALSE, "">>
    ELSE IF args = <<>> THEN <<FALSE, "">>
    ELSE LET i == SetMin(Occurrences(tpl, "%s"))
             rest == FormatPct(SubSeq(tpl, i + 2, Len(tpl)), Tail(args))
         IN IF rest[1] THEN <<TRUE, SubSeq(tpl, 1, i - 1) \o Head(args) \o rest[2]>>
            ELSE <<FALSE, "">>

\* a local variable of the code: the value v is computed once, and the rest
\* of the body, Rest, reads it
With(v, Rest(_)) == Rest(v)

\* generic list helpers
RECURSIVE Flatten(_)
Flatten(ss) == IF ss = <<>> THEN <<>> ELSE Head(ss) \o Flatten(Tail(ss))

Range(s) == {s[i] : i \in 1..Len(s)}

(***************************************************************************)
(* Term algebra: Kinds and Applications                                    *)
(***************************************************************************)

\* Kind instances (knd.py).  A Type has kind "type", an Element has kind
\* "element" and carries its domain and codomain.
TypeKind(cls, name, id) ==
    [tag |-> "kind", cls |-> cls, kind |-> "type", name |-> name, id |-> id]

ElementKind(cls, name, id, domain, codomain) ==
    [tag |-> "kind", cls |-> cls, kind |-> "element", name |-> name, id |-> id,
     domain |-> domain, codomain |-> codomain]

\* Constant.__init__: the domain is the singleton one, and a code is kept;
\* the code is <<c>> for the string c and <<>> when it is left at None
ConstantKind(name, id, domain, codomain, code) ==
    [tag |-> "kind", cls |-> "Constant", kind |-> "element", name |-> name, id |-> id,
     domain |-> domain, codomain |-> codomain, code |-> code]

\* an integer literal in an argument list (the index of a projection)
IntArg(n) == [tag |-> "int", val |-> n]

\* Application(op, args) once its constraints are known to hold
App(op, args) == [tag |-> "app", op |-> op, args |-> args]

IsInt(t) == t.tag = "int"
IsKind(t) == t.tag = "kind"
IsApp(t) == t.tag = "app"

\* Operation.kind, as set by each Operation.__init__
OpKind(op) ==
    IF op \in {"Cartesian product", "selection", "range", "functional type"}
    THEN "type" ELSE "element"

\* Term.kind of a term
KindOf(t) == IF IsKind(t) THEN t.kind ELSE OpKind(t.op)

\* the concrete Kind classes Kind.equals accepts
KindClasses ==
    {"ObjectType", "Phenomenon", "ObjectTypeRelation", "Variable", "DatasetDesign",
     "Quantity", "Measure", "Unit", "CodeList", "Level", "Representation",
     "ObjectTypeInclusion", "DatasetDescription", "PhenomenonMeasureMapping",
     "MeasureRepresentationMapping", "Constant", "One", "Operator"}

\* Kind.equals(self, term)
KindEquals(self, term) ==
    IF ~(IsKind(term) /\ term.cls \in KindClasses) THEN FALSE
    ELSE IF self.id # term.id THEN FALSE
    ELSE TRUE

\* Application.equals(self, term) and, by dispatch on self, Term.equals
RECURSIVE TermEquals(_, _)
\* Application.equals without the comparison of the values of two integer
\* literals
ApplicationEqualsAnyLiteral(self, term) ==
    IF ~IsApp(term) THEN FALSE
    ELSE IF self.op # term.op THEN FALSE
    ELSE IF Len(self.args) # Len(term.args) THEN FALSE
    ELSE \A i \in 1..Len(term.args) :
            /\ IsInt(term.args[i]) => IsInt(self.args[i])
            /\ IsInt(self.args[i]) => IsInt(term.args[i])
            /\ (~IsInt(term.args[i]) /\ ~IsInt(self.args[i])) =>
                  TermEquals(term.args[i], self.args[i])

ApplicationEquals(self, term) ==
    IF ~IsApp(term) THEN FALSE
    ELSE IF self.op # term.op THEN FALSE
    ELSE IF Len(self.args) # Len(term.args) THEN FALSE
    ELSE \A i \in 1..Len(term.args) :
            /\ IsInt(term.args[i]) =>
                  (IsInt(self.args[i]) /\ term.args[i].val = self.args[i].val)
            /\ IsInt(self.args[i]) => IsInt(term.args[i])
            /\ (~IsInt(term.args[i]) /\ ~IsInt(self.args[i])) =>
                  TermEquals(term.args[i], self.args[i])

TermEquals(self, term) ==
    IF IsKind(self) THEN KindEquals(self, term) ELSE ApplicationEquals(self, term)

\* term.type.args[0] and term.type.args[1]: the domain and the codomain of
\* the functional type of an element (Element.__init__, getreturntype)
RECURSIVE Dom(_), Cod(_)
Dom(t) ==
    IF IsKind(t) THEN t.domain
    ELSE CASE t.op = "composition" -> Dom(t.args[Len(t.args)])
           [] t.op = "product"     -> Dom(t.args[1])
           [] t.op = "inclusion"   -> App("selection", t.args)
           [] t.op = "inverse"     -> App("range", t.args)
           [] t.op = "aggregation" -> Cod(t.args[2])
           [] t.op = "projection"  ->
                 App("Cartesian product", SubSeq(t.args, 1, Len(t.args) - 1))

Cod(t) ==
    IF IsKind(t) THEN t.codomain
    ELSE CASE t.op = "composition" -> Cod(t.args[1])
           [] t.op = "product"     ->
                 App("Cartesian product", [i \in 1..Len(t.args) |-> Cod(t.args[i])])
           [] t.op = "inclusion"   -> Dom(t.args[1])
           [] t.op = "inverse"     -> Cod(t.args[1])
           [] t.op = "aggregation" -> Cod(t.args[1])
           [] t.op = "projection"  -> t.args[t.args[Len(t.args)].val]

AllElements(args) == \A i \in 1..Len(args) : ~IsInt(args[i]) /\ KindOf(args[i]) = "element"

\* Composition.consecutive folded over args by reduce(): every argument's
\* domain equals the codomain of the argument after it
RECURSIVE Consecutive(_)
Consecutive(args) ==
    IF Len(args) < 2 THEN TRUE
    ELSE /\ TermEquals(Dom(args[1]), Cod(args[2]))
         /\ Consecutive(Tail(args))

\* Inclusion.checkapplicationconstraints (a class method shared with Selection)
InclusionConstraints(args) ==
    IF Len(args) < 2 THEN FALSE
    ELSE IF Len(args) % 2 # 0 THEN FALSE
    ELSE /\ AllElements(args)
         /\ \A i \in 1..Len(args) : TermEquals(Dom(args[i]), Dom(args[1]))
         /\ \A i \in 1..Len(args) :
               LET first == SetMin({j \in 1..Len(args) : args[j] = args[i]})
               IN first % 2 = 1 => TermEquals(Cod(args[i]), Cod(args[first + 1]))

\* op.checkapplicationconstraints(args)
CheckApplicationConstraints(op, args) ==
    CASE op = "composition" ->
            Len(args) >= 2 /\ AllElements(args) /\ Consecutive(args)
      [] op = "product" ->
            /\ Len(args) >= 2
            /\ AllElements(args)
            /\ \A i \in 1..Len(args) : TermEquals(Dom(args[i]), Dom(args[1]))
      [] op = "inclusion" -> InclusionConstraints(args)
      [] op = "inverse" -> Len(args) = 1 /\ AllElements(args)
      [] op = "aggregation" ->
            /\ Len(args) = 2
            /\ AllElements(args)
            /\ TermEquals(Dom(args[1]), Dom(args[2]))
      [] op = "projection" ->
            /\ Len(args) >= 3
            /\ \A i \in 1..(Len(args) - 1) : ~IsInt(args[i]) /\ KindOf(args[i]) = "type"
            /\ IsInt(args[Len(args)])
            /\ args[Len(args)].val >= 1
            /\ args[Len(args)].val <= Len(args) - 1
      [] op = "Cartesian product" ->
            /\ Len(args) >= 2
            /\ \A i \in 1..Len(args) : ~IsInt(args[i]) /\ KindOf(args[i]) = "type"
      [] op = "selection" -> InclusionConstraints(args)
      [] op = "range" -> Len(args) = 1 /\ AllElements(args)
      [] op = "functional type" ->
            /\ Len(args) = 2
            /\ \A i \in 1..Len(args) : ~IsInt(args[i]) /\ KindOf(args[i]) = "type"
      [] OTHER -> FALSE

\* The exception a run of op.checkapplicationconstraints(args) ends with,
\* or "" when it returns.  Reading arg.kind of an integer, or arg.type.args
\* of a term whose type is None (a type), raises AttributeError; the
\* arguments are read in the order of the code, and a return of False
\* before the offending argument prevents the exception.
HasFunctionalType(arg) == ~IsInt(arg) /\ KindOf(arg) = "element"

\* the loop "for arg in args: if arg.kind != kind: return False"
KindLoopRaises(args, kind) ==
    \E i \in 1..Len(args) :
        /\ IsInt(args[i])
        /\ \A j \in 1..(i - 1) : ~IsInt(args[j]) /\ KindOf(args[j]) = kind

\* "type = args[0].type.args[0]" followed by the loop over args that tests
\* arg.kind and then arg.type.args[0].equals(type)
DomainLoopRaises(args) ==
    \/ ~HasFunctionalType(args[1])
    \/ \E i \in 1..Len(args) :
          /\ IsInt(args[i])
          /\ \A j \in 1..(i - 1) :
                HasFunctionalType(args[j]) /\ TermEquals(Dom(args[j]), Dom(args[1]))

ConstraintsRaise(op, args) ==
    CASE op = "composition" ->
            IF Len(args) >= 2 /\ KindLoopRaises(args, "element") THEN "AttributeError" ELSE ""
      [] op = "product" ->
            IF Len(args) >= 2 /\ DomainLoopRaises(args) THEN "AttributeError" ELSE ""
      [] op \in {"inclusion", "selection"} ->
            IF Len(args) >= 2 /\ Len(args) % 2 = 0 /\ DomainLoopRaises(args)
            THEN "AttributeError" ELSE ""
      [] op \in {"inverse", "range"} ->
            IF Len(args) = 1 /\ IsInt(args[1]) THEN "AttributeError" ELSE ""
      [] op = "aggregation" ->
            IF Len(args) = 2 /\ KindLoopRaises(args, "element") THEN "AttributeError" ELSE ""
      [] op = "projection" ->
            IF Len(args) >= 3 /\ KindLoopRaises(SubSeq(args, 1, Len(args) - 1), "type")
            THEN "AttributeError" ELSE ""
      [] op = "Cartesian product" ->
            IF Len(args) >= 2 /\ KindLoopRaises(args, "type") THEN "AttributeError" ELSE ""
      [] op = "functional type" ->
            IF Len(args) = 2 /\ KindLoopRaises(args, "type") THEN "AttributeError" ELSE ""
      [] OTHER -> ""

(***************************************************************************)
(* The domain model and the catalogue (taken from domainmodel/testdm.py)   *)
(***************************************************************************)
persoon == TypeKind("ObjectType", "persoon", "u01")
adres == TypeKind("ObjectType", "adres", "u02")
gemeente == TypeKind("ObjectType", "gemeente", "u03")
getal == TypeKind("Quantity", "getal", "u04")
gemeentenamen == TypeKind("Phenomenon", "gemeentenamen", "u05")
geslachten == TypeKind("Phenomenon", "geslachten", "u06")
identificator == TypeKind("Phenomenon", "identificator", "u07")
one == TypeKind("One", "1", "u08")

woontop == ElementKind("ObjectTypeRelation", "woont op", "u10", persoon, adres)
ligtin == ElementKind("ObjectTypeRelation", "ligt in", "u11", adres, gemeente)
inkomen == ElementKind("Variable", "inkomen", "u12", persoon, getal)
leeftijd == ElementKind("Variable", "leeftijd", "u13", persoon, getal)
geslacht == ElementKind("Variable", "geslacht", "u14", persoon, geslachten)
gemeentenaam == ElementKind("Variable", "gemeentenaam", "u15", gemeente, gemeentenamen)
eenpersoon == ElementKind("Variable", "een(persoon)", "u16", persoon, getal)
allepersonen == ElementKind("Variable", "alle(persoon)", "u17", persoon, one)
man == ConstantKind("man", "u18", one, geslachten, <<"man">>)
vrouw == ConstantKind("vrouw", "u25", one, geslachten, <<>>)
gedeelddoor ==
    ElementKind("Operator", "(/)", "u19", App("Cartesian product", <<getal, getal>>), getal)

persoonid == ElementKind("Variable", "persoon_id", "u20", persoon, identificator)
adresid == ElementKind("Variable", "adres_id", "u21", adres, identificator)
gemeenteid == ElementKind("Variable", "gemeente_id", "u22", gemeente, identificator)
persoonadresid == ElementKind("Variable", "woont_op", "u23", persoon, identificator)
adresgemeenteid == ElementKind("Variable", "ligt_in", "u24", adres, identificator)

\* DatasetDesign(name, constr): the table designs, in catalogue order
DatasetDesign(name, constr) == [name |-> name, constr |-> constr]

persoondata ==
    DatasetDesign("persoon",
        App("product", <<persoonid, leeftijd, geslacht, inkomen, persoonadresid>>))
adresdata == DatasetDesign("adres", App("product", <<adresid, adresgemeenteid>>))
gemeentedata == DatasetDesign("gemeente", App("product", <<gemeenteid, gemeentenaam>>))

data == <<persoondata, adresdata, gemeentedata>>

(***************************************************************************)
(* The query plan classes of cmpl.py.  A Name is its string.               *)
(***************************************************************************)
DIALECT_MYSQL == "MySQL"
DIALECT_SQLSERVER == "T-SQL"
Dialects == {DIALECT_MYSQL, DIALECT_SQLSERVER}

\* an absent value (Python None) and a present one, for optional attributes
NoneVal == <<>>
Some(x) == <<x>>

\* a raised exception, as the value of the computation that raised it
Exc(cls) == [kind |-> "Exc", cls |-> cls]
IsExc(v) == v.kind = "Exc"

TableAlias(table, alias) == [table |-> table, alias |-> alias]

Column(table, column) == [kind |-> "Column", table |-> table, column |-> column]

ColumnAlias(table, column, alias) ==
    [kind |-> "ColumnAlias", table |-> table, column |-> column, alias |-> alias]

ExpressionAlias(args, alias, prefix, infix) ==
    [kind |-> "ExpressionAlias", args |-> args, alias |-> alias,
     prefix |-> prefix, infix |-> infix]

\* a None entry of a select list (do_composition_rhs_projection)
NoneColumn == [kind |-> "None"]

Cond(lhs, rhs) == [lhs |-> lhs, rhs |-> rhs]

\* JoinSpec: a TableAlias and a CondList
JoinSpec(table, alias, condlist) ==
    [table |-> table, alias |-> alias, condlist |-> condlist]

\* the grouping spec: a list of columns, or True for "aggregate everything"
GroupList(cols) == [all |-> FALSE, cols |-> cols]
GroupAll == [all |-> TRUE, cols |-> <<>>]

QOperator(prefix, infix) == [kind |-> "QOperator", prefix |-> prefix, infix |-> infix]

QProjection(dimensions, all_dimensions) ==
    [kind |-> "QProjection", dimensions |-> dimensions, all_dimensions |-> all_dimensions]

\* the value of do_cmpl for a term no branch handles
PyNone == [kind |-> "NoneType"]

IsQStruct(v) == v.kind = "QStruct"
IsQProjection(v) == v.kind = "QProjection"
IsQOperator(v) == v.kind = "QOperator"

\* Alias.gen_sql (Alias.__repr__ has the same body)
AliasSql(alias) == IF alias # "" THEN " AS " \o alias ELSE ""

\* TableAlias.gen_sql (TableAlias.__repr__ has the same body)
TableAliasSql(t) ==
    IF t.alias = "" \/ t.table = t.alias THEN t.table
    ELSE IF t.table # "" THEN t.table \o AliasSql(t.alias) ELSE ""

\* TableAlias.get_alias
GetAlias(t) == IF t.alias # "" THEN t.alias ELSE t.table

\* Column.gen_sql (Column.__repr__ has the same body)
ColumnSql(c) == IF c.table # "" THEN c.table \o "." \o c.column ELSE c.column

\* gen_sql of a select expression: Column, ColumnAlias or ExpressionAlias.
\* The second component is FALSE when the infix template does not take the
\* arguments (Python raises TypeError).
RECURSIVE ExprFormat(_)
ExprFormat(e) ==
    CASE e.kind = "Column" -> <<TRUE, ColumnSql(e)>>
      [] e.kind = "ColumnAlias" -> <<TRUE, ColumnSql(e) \o AliasSql(e.alias)>>
      [] e.kind = "ExpressionAlias" ->
            IF Len(e.args) = 0 THEN <<TRUE, "">>
            ELSE IF Len(e.args) = 1 /\ e.prefix = ""
            THEN LET a == ExprFormat(e.args[1])
                 IN <<a[1], a[2] \o AliasSql(e.alias)>>
            ELSE LET parts == [i \in 1..Len(e.args) |-> ExprFormat(e.args[i])]
                 IN With(FormatPct(e.infix, [i \in 1..Len(e.args) |-> parts[i][2]]),
                         LAMBDA f :
                            <<f[1] /\ \A i \in 1..Len(e.args) : parts[i][1],
                              e.prefix \o "(" \o f[2] \o ")" \o AliasSql(e.alias)>>)
      [] e.kind = "None" -> <<TRUE, "None">>

ExprSql(e) == ExprFormat(e)[2]

\* get_column() of a ColumnAlias
GetColumn(c) == Column(c.table, c.column)

\* Column.__eq__: equal representations
ColumnEq(a, b) == ExprSql(a) = ExprSql(b)

\* Cond.gen_sql (Cond.__repr__ has the same body)
CondSql(c) == "(" \o ExprSql(c.lhs) \o " = " \o ExprSql(c.rhs) \o ")"

\* Cond.is_trivially_true and CondList.is_trivially_true
CondIsTriviallyTrue(c) == ExprSql(c.lhs) = ExprSql(c.rhs)
IsTriviallyTrue(j) == \A i \in 1..Len(j.condlist) : CondIsTriviallyTrue(j.condlist[i])

\* sep.join(texts)
RECURSIVE Join(_, _)
Join(sep, texts) ==
    IF texts = <<>> THEN ""
    ELSE IF Len(texts) = 1 THEN texts[1]
    ELSE texts[1] \o sep \o Join(sep, Tail(texts))

\* CondList.gen_sql (CondList.__repr__ has the same body)
CondListSql(j) == Join(" AND ", [i \in 1..Len(j.condlist) |-> CondSql(j.condlist[i])])

\* JoinSpec.gen_sql (JoinSpec.__repr__ has the same body)
JoinSpecSql(j) == TableAliasSql(j) \o " ON " \o CondListSql(j)

\* JoinSpec.__eq__
JoinSpecEq(a, b) ==
    IF a.table # b.table \/ Len(a.condlist) # Len(b.condlist) THEN FALSE
    ELSE \A i \in 1..Len(a.condlist) :
            ~(\/ a.condlist[i].lhs.column # b.condlist[i].lhs.column
              \/ ExprSql(a.condlist[i].rhs) # ExprSql(b.condlist[i].rhs))

\* QStruct.add_join applied to each join of a list in turn (QStruct.__init__)
RECURSIVE AddJoins(_, _)
AddJoins(joins, new) ==
    IF new = <<>> THEN joins
    ELSE AddJoins(IF \A i \in 1..Len(joins) : ~JoinSpecEq(joins[i], Head(new))
                  THEN Append(joins, Head(new)) ELSE joins,
                  Tail(new))

\* QStruct.add_where applied to each filter of a list in turn (QStruct.__init__)
RECURSIVE AddWheres(_, _)
AddWheres(wheres, new) ==
    IF new = <<>> THEN wheres
    ELSE AddWheres(IF \E i \in 1..Len(wheres) : CondSql(wheres[i]) = CondSql(Head(new))
                   THEN wheres ELSE Append(wheres, Head(new)),
                   Tail(new))

\* QStruct.__init__
QStruct(selectsdom, selectscod, frm, joins, wheres, groupbys, frozen_qsts, distinct, orderby, orderdir) ==
    [kind |-> "QStruct",
     frozen_qsts |-> frozen_qsts,
     selectsdom |-> selectsdom,
     selectscod |-> selectscod,
     frm |-> frm,
     joins |-> AddJoins(<<>>, joins),
     wheres |-> AddWheres(<<>>, wheres),
     groupbys |-> groupbys,
     distinct |-> distinct,
     orderby |-> orderby,
     orderdir |-> orderdir,
     tablename |-> ""]

\* the select list of a plan: selectsdom + selectscod
Selects(q) == q.selectsdom \o q.selectscod

\* the clauses both renderings of a plan build in the same way
ColSpec(q) == Join(", ", [i \in 1..Len(Selects(q)) |-> ExprSql(Selects(q)[i])])
JoinStr(q) == Join("", [i \in 1..Len(q.joins) |-> "\nJOIN " \o JoinSpecSql(q.joins[i])])
FromStr(q) == IF TableAliasSql(q.frm) # "" THEN "\nFROM " \o TableAliasSql(q.frm) ELSE ""
WhereStr(q) ==
    IF q.wheres = <<>> THEN ""
    ELSE "\nWHERE " \o Join(" AND ", [i \in 1..Len(q.wheres) |-> CondSql(q.wheres[i])])
\* a grouping clause per grouping column
GroupByStrPerColumn(q) ==
    IF q.groupbys.all \/ q.groupbys.cols = <<>> THEN ""
    ELSE Join("", [i \in 1..Len(q.groupbys.cols) |->
                     "\nGROUP BY " \o ExprSql(q.groupbys.cols[i])])

GroupByStr(q) ==
    IF q.groupbys.all \/ q.groupbys.cols = <<>> THEN ""
    ELSE "\nGROUP BY " \o
         Join(", ", [i \in 1..Len(q.groupbys.cols) |-> ExprSql(q.groupbys.cols[i])])
OrderDir(q) == IF q.orderdir = "desc" THEN "DESC" ELSE "ASC"
DistinctStr(q) == IF q.distinct THEN "DISTINCT " ELSE ""

\* QStruct.__repr__: the text dedup_frozen compares
RECURSIVE QStructRepr(_)
QStructRepr(q) ==
    LET children ==
            Join("", [i \in 1..Len(q.frozen_qsts) |->
                        "CREATE TEMPORARY TABLE " \o q.frozen_qsts[i].tablename \o "\n"
                        \o QStructRepr(q.frozen_qsts[i])])
        orderbystr ==
            IF q.orderby # NoneVal
            THEN "\nORDER BY " \o q.orderby[1] \o " " \o OrderDir(q) \o " LIMIT 5"
            ELSE ""
    IN children \o "SELECT " \o DistinctStr(q) \o ColSpec(q) \o FromStr(q) \o JoinStr(q)
       \o WhereStr(q) \o GroupByStr(q) \o orderbystr \o "\n"

\* the clauses of QStruct.gen_sql that depend on the dialect
CreateStr(q, dialect, create_table) ==
    IF create_table /\ dialect = DIALECT_MYSQL
    THEN "CREATE TEMPORARY TABLE " \o q.tablename \o "\n" ELSE ""

IntoStr(q, dialect, create_table) ==
    IF create_table /\ dialect # DIALECT_MYSQL
    THEN " INTO " \o q.tablename ELSE ""

OrderByStr(q) ==
    IF q.orderby # NoneVal
    THEN "\nORDER BY " \o q.orderby[1] \o " " \o OrderDir(q) ELSE ""

\* a MySQL row cap that differs from the T-SQL one
LimitStrTen(q, dialect) ==
    IF q.orderby # NoneVal /\ dialect = DIALECT_MYSQL THEN " LIMIT 10" ELSE ""

LimitStr(q, dialect) ==
    IF q.orderby # NoneVal /\ dialect = DIALECT_MYSQL THEN " LIMIT 5" ELSE ""

\* a T-SQL row cap put in every statement, sorted or not
TopStrAlways(q, dialect) ==
    IF dialect # DIALECT_MYSQL THEN "TOP 5 " ELSE ""

TopStr(q, dialect) ==
    IF q.orderby # NoneVal /\ dialect # DIALECT_MYSQL THEN "TOP 5 " ELSE ""

\* QStruct.gen_sql before the final rewriting of temp-table references:
\* the statements of the children, then the statement of the plan itself
RECURSIVE GenSqlRaw(_, _, _)
GenSqlRaw(q, dialect, create_table) ==
    LET children ==
            Join("", [i \in 1..Len(q.frozen_qsts) |->
                        GenSqlRaw(q.frozen_qsts[i], dialect, TRUE)])
    IN children \o CreateStr(q, dialect, create_table) \o "SELECT " \o DistinctStr(q)
       \o TopStr(q, dialect) \o ColSpec(q) \o IntoStr(q, dialect, create_table)
       \o FromStr(q) \o JoinStr(q) \o WhereStr(q) \o GroupByStr(q)
       \o OrderByStr(q) \o LimitStr(q, dialect) \o "\n\n"

\* a gen_sql that rewrites the references of a text already rewritten
GenSqlHashedTwice(q, dialect, create_table) ==
    IF dialect = DIALECT_SQLSERVER
    THEN HashTmp(HashTmp(GenSqlRaw(q, dialect, create_table)))
    ELSE GenSqlRaw(q, dialect, create_table)

\* QStruct.gen_sql(dialect, create_table)
GenSql(q, dialect, create_table) ==
    IF dialect = DIALECT_SQLSERVER /\ ~create_table
    THEN HashTmp(GenSqlRaw(q, dialect, create_table))
    ELSE GenSqlRaw(q, dialect, create_table)

\* gen_sql raises: a None entry in a select list has no gen_sql
\* (AttributeError), or an infix template does not take its arguments
\* (TypeError); when both occur the first in rendering order is raised
RECURSIVE GenSqlError(_)
GenSqlError(q) ==
    LET childerrs == [i \in 1..Len(q.frozen_qsts) |-> GenSqlError(q.frozen_qsts[i])]
        bad == {i \in 1..Len(childerrs) : childerrs[i] # ""}
        sel == Selects(q)
        badsel == {i \in 1..Len(sel) : sel[i].kind = "None" \/ ~ExprFormat(sel[i])[1]}
    IN IF bad # {} THEN childerrs[SetMin(bad)]
       ELSE IF badsel # {}
       THEN IF sel[SetMin(badsel)].kind = "None" THEN "AttributeError" ELSE "TypeError"
       ELSE ""

(***************************************************************************)
(* Freezing and deduplication.  A computation that reads or writes the     *)
(* global table_num takes its value n and returns R(value, n').            *)
(***************************************************************************)
R(v, n) == [v |-> v, n |-> n]

\* the same for a computation over a list of plans: the list and no error,
\* or the class of the exception that ended it
RL(qsts, n) == [v |-> qsts, n |-> n, err |-> ""]
Raised(cls, n) == [v |-> <<>>, n |-> n, err |-> cls]

\* a name minted after the counter was advanced
TmpNameAfterIncrement(n) == "tmp" \o ToString(n + 1)

\* the name freeze mints from the counter
TmpName(n) == "tmp" \o ToString(n)

\* the loop of freeze over selectsdom + selectscod: an entry without alias
\* gets the alias col<position>
WithDefaultAliases(cols, offset) ==
    [i \in 1..Len(cols) |->
        IF cols[i].alias = ""
        THEN [cols[i] EXCEPT !.alias = "col" \o ToString(offset + i - 1)]
        ELSE cols[i]]

\* QStruct.freeze
Freeze(self, n) ==
    LET tablename == TmpName(n)
    IN IF \E i \in 1..Len(Selects(self)) : Selects(self)[i].kind = "None"
       THEN R(Exc("AttributeError"), n + 1)
       ELSE
       LET dom == WithDefaultAliases(self.selectsdom, 0)
           cod == WithDefaultAliases(self.selectscod, Len(self.selectsdom))
           frozen_qst == [self EXCEPT !.tablename = tablename,
                                      !.selectsdom = dom,
                                      !.selectscod = cod,
                                      !.frozen_qsts = <<>>,
                                      !.orderby = NoneVal,
                                      !.orderdir = ""]
       IN R([self EXCEPT
                !.frozen_qsts = Append(self.frozen_qsts, frozen_qst),
                !.frm = TableAlias(tablename, ""),
                !.selectsdom = [i \in 1..Len(dom) |-> ColumnAlias(tablename, dom[i].alias, "")],
                !.selectscod = [i \in 1..Len(cod) |-> ColumnAlias(tablename, cod[i].alias, "")],
                !.joins = <<>>,
                !.wheres = <<>>,
                !.groupbys = GroupList(<<>>)],
            n + 1)

FREEZE_ALL == FALSE
DEDUP_FROZEN == TRUE

\* the truth value of qst.groupbys
GroupbysTruthy(q) == q.groupbys.all \/ q.groupbys.cols # <<>>

\* the condition under which freeze_qsts freezes an entry
MustFreeze(q) == IsQStruct(q) /\ (FREEZE_ALL \/ GroupbysTruthy(q) \/ q.distinct)

\* freeze_qsts(qsts): the entries are frozen in list order; an exception
\* ends the loop
RECURSIVE FreezeQstsFrom(_, _, _)
FreezeQstsFrom(qsts, i, n) ==
    IF i > Len(qsts) THEN RL(qsts, n)
    ELSE IF MustFreeze(qsts[i])
    THEN With(Freeze(qsts[i], n), LAMBDA fz :
             IF IsExc(fz.v) THEN Raised(fz.v.cls, fz.n)
             ELSE FreezeQstsFrom([qsts EXCEPT ![i] = fz.v], i + 1, fz.n))
    ELSE FreezeQstsFrom(qsts, i + 1, n)

FreezeQsts(qsts, n) == FreezeQstsFrom(qsts, 1, n)

\* Column.substitute_table, and ExpressionAlias.substitute_table over its args
RECURSIVE SubstituteTableExpr(_, _, _)
SubstituteTableExpr(e, old, new) ==
    IF e.kind = "ExpressionAlias"
    THEN [e EXCEPT !.args = [i \in 1..Len(e.args) |-> SubstituteTableExpr(e.args[i], old, new)]]
    ELSE IF e.table = old THEN [e EXCEPT !.table = new] ELSE e

\* JoinSpec.substitute_table: the conditions, then the joined table
SubstituteTableJoin(j, old, new) ==
    [j EXCEPT
        !.condlist = [i \in 1..Len(j.condlist) |->
                        Cond(SubstituteTableExpr(j.condlist[i].lhs, old, new),
                             SubstituteTableExpr(j.condlist[i].rhs, old, new))],
        !.table = IF j.table = old THEN new ELSE j.table]

\* the loop of QStruct.substitute_table that rebuilds self.joins
RECURSIVE SubstituteJoins(_, _, _, _)
SubstituteJoins(kept, old_joins, old, new) ==
    IF old_joins = <<>> THEN kept
    ELSE With(SubstituteTableJoin(Head(old_joins), old, new), LAMBDA j :
         LET keep == /\ ~IsTriviallyTrue(j)
                     /\ \A i \in 1..Len(kept) :
                           ~JoinSpecEq(j, kept[i]) /\ CondListSql(j) # CondListSql(kept[i])
         IN SubstituteJoins(IF keep THEN Append(kept, j) ELSE kept,
                            Tail(old_joins), old, new))

\* the classes with a table attribute
HasTable(c) == c.kind \in {"Column", "ColumnAlias"}

\* QStruct.substitute_table.  It raises AttributeError for a None entry of
\* the select list, and for a filter side or a grouping column that is an
\* ExpressionAlias, which has no table attribute.
SubstituteTable(self, old, new) ==
    IF \/ \E i \in 1..Len(Selects(self)) : Selects(self)[i].kind = "None"
       \/ \E i \in 1..Len(self.wheres) :
             ~HasTable(self.wheres[i].lhs) \/ ~HasTable(self.wheres[i].rhs)
       \/ \E i \in 1..Len(self.groupbys.cols) : ~HasTable(self.groupbys.cols[i])
    THEN Exc("AttributeError")
    ELSE
    [self EXCEPT
        !.selectsdom = [i \in 1..Len(self.selectsdom) |->
                           SubstituteTableExpr(self.selectsdom[i], old, new)],
        !.selectscod = [i \in 1..Len(self.selectscod) |->
                           SubstituteTableExpr(self.selectscod[i], old, new)],
        !.frm = IF self.frm.table = old THEN [self.frm EXCEPT !.table = new] ELSE self.frm,
        !.joins = SubstituteJoins(<<>>, self.joins, old, new),
        !.wheres = [i \in 1..Len(self.wheres) |->
                       Cond(SubstituteTableExpr(self.wheres[i].lhs, old, new),
                            SubstituteTableExpr(self.wheres[i].rhs, old, new))],
        !.groupbys = IF self.groupbys.all THEN self.groupbys
                     ELSE GroupList([i \in 1..Len(self.groupbys.cols) |->
                             SubstituteTableExpr(self.groupbys.cols[i], old, new)])]

\* queries.index(query): the 0-based index of the first equal text, or -1
IndexOf(queries, query) ==
    IF \E i \in 1..Len(queries) : queries[i] = query
    THEN SetMin({i \in 1..Len(queries) : queries[i] = query}) - 1
    ELSE -1

\* a loop that returns after the first duplicate it drops
RECURSIVE DedupLoopOnce(_, _, _, _, _)
DedupLoopOnce(self, old_qsts, i, queries, kept) ==
    IF i > Len(old_qsts) THEN [self EXCEPT !.frozen_qsts = kept]
    ELSE With(QStructRepr(old_qsts[i]), LAMBDA query :
         LET qst == old_qsts[i]
             j == IndexOf(queries, query)
         IN IF j = -1
            THEN DedupLoopOnce(self, old_qsts, i + 1, Append(queries, query), Append(kept, qst))
            ELSE LET cur_table == qst.tablename
                     rep_table == old_qsts[j + 1].tablename
                 IN With([k \in 1..Len(old_qsts) |->
                            IF k > i THEN SubstituteTable(old_qsts[k], cur_table, rep_table)
                            ELSE old_qsts[k]],
                         LAMBDA rewritten :
                    IF \E k \in 1..Len(rewritten) : IsExc(rewritten[k]) THEN Exc("AttributeError")
                    ELSE With(SubstituteTable(self, cur_table, rep_table), LAMBDA newself :
                            IF IsExc(newself) THEN newself
                            ELSE [newself EXCEPT
                                    !.frozen_qsts =
                                        kept \o SubSeq(rewritten, i + 1, Len(rewritten))])))

\* the loop of dedup_frozen.  old_qsts is the list being walked (its later
\* entries are rewritten in place), i the 1-based position, queries the
\* texts seen, kept the new self.frozen_qsts, self the plan.
RECURSIVE DedupLoop(_, _, _, _, _)
DedupLoop(self, old_qsts, i, queries, kept) ==
    IF i > Len(old_qsts) THEN [self EXCEPT !.frozen_qsts = kept]
    ELSE With(QStructRepr(old_qsts[i]), LAMBDA query :
         LET qst == old_qsts[i]
             j == IndexOf(queries, query)
         IN IF j = -1
            THEN DedupLoop(self, old_qsts, i + 1, Append(queries, query), Append(kept, qst))
            ELSE LET cur_table == qst.tablename
                     rep_table == old_qsts[j + 1].tablename
                 IN With([k \in 1..Len(old_qsts) |->
                            IF k > i THEN SubstituteTable(old_qsts[k], cur_table, rep_table)
                            ELSE old_qsts[k]],
                         LAMBDA rewritten :
                    IF \E k \in 1..Len(rewritten) : IsExc(rewritten[k]) THEN Exc("AttributeError")
                    ELSE With(SubstituteTable(self, cur_table, rep_table), LAMBDA newself :
                            IF IsExc(newself) THEN newself
                            ELSE DedupLoop(newself, rewritten, i + 1, queries, kept))))

\* QStruct.dedup_frozen
DedupFrozen(self) ==
    IF ~DEDUP_FROZEN THEN self
    ELSE DedupLoop(self, self.frozen_qsts, 1, <<>>, <<>>)

(***************************************************************************)
(* Lowering of the base elements                                           *)
(***************************************************************************)

\* foundsome(subterm_name, term)
RECURSIVE foundsome(_, _)
foundsome(subterm_name, term) ==
    IF IsApp(term)
    THEN \E i \in 1..Len(term.args) : foundsome(subterm_name, term.args[i])
    ELSE IF IsKind(term) /\ term.cls \in {"Variable", "Constant", "ObjectTypeRelation"}
    THEN term.name = subterm_name
    ELSE FALSE

\* findtable(data, term_name), as the text f"{table}" the callers format:
\* the name of the first design that mentions the name, or "None"
findtable(d, term_name) ==
    LET found == {i \in 1..Len(d) : foundsome(term_name, d[i].constr)}
    IN IF found = {} THEN "None" ELSE d[SetMin(found)].name

\* the sort column test of cmplvariable and cmplimmediate:
\* var is not None and var.equals(term)
IsSortElement(var, term) == var # NoneVal /\ TermEquals(var[1], term)

\* a cmplobjecttyperelation that looks the table up by the name of the term
\* as it is, spaces included
cmplobjecttyperelationByName(d, term, var, order) ==
    LET name == SubSpaces(term.name)
        table == findtable(d, term.name)
        frm == TableAlias(table, "")
    IN QStruct(<<ColumnAlias(GetAlias(frm), table \o "_id", "")>>,
               <<ColumnAlias(GetAlias(frm), name, "")>>,
               frm, <<>>, <<>>, GroupList(<<>>), <<>>, FALSE, NoneVal, "")

\* cmplobjecttyperelation(data, term, var, order)
cmplobjecttyperelation(d, term, var, order) ==
    LET name == SubSpaces(term.name)
        table == findtable(d, name)
        frm == TableAlias(table, "")
    IN QStruct(<<ColumnAlias(GetAlias(frm), table \o "_id", "")>>,
               <<ColumnAlias(GetAlias(frm), name, "")>>,
               frm, <<>>, <<>>, GroupList(<<>>), <<>>, FALSE, NoneVal, "")

\* the frm of an immediate value whose domain is not an object type
NoneFrm == [kind |-> "None"]

\* cmplimmediate(data, term, var, order)
cmplimmediate(d, term, var, order) ==
    LET imm == IF term.codomain.name = "1" THEN "'*'" ELSE "1"
        hastable == IsKind(term.domain) /\ term.domain.cls = "ObjectType"
        table == term.domain.name
        frm == IF hastable THEN TableAlias(table, "") ELSE NoneFrm
        selectsdom == IF hastable
                      THEN <<ColumnAlias(GetAlias(frm), table \o "_id", "")>>
                      ELSE <<>>
        sorted == IsSortElement(var, term)
    IN QStruct(selectsdom,
               <<ColumnAlias("", imm, IF sorted THEN "keyc" ELSE "")>>,
               frm, <<>>, <<>>, GroupList(<<>>), <<>>, FALSE,
               IF sorted THEN Some("keyc") ELSE NoneVal, order)

\* cmplvariable(data, term, var, order)
cmplvariable(d, term, var, order) ==
    IF (IsKind(term.codomain) /\ term.codomain.name = "1") \/ StartsWith(term.name, "een")
    THEN cmplimmediate(d, term, var, order)
    ELSE
    LET table == findtable(d, term.name)
        name == SubSpaces(term.name)
        frm == TableAlias(table, "")
        sorted == IsSortElement(var, term)
    IN QStruct(<<ColumnAlias(GetAlias(frm), table \o "_id", "")>>,
               <<ColumnAlias(GetAlias(frm), name, IF sorted THEN "keyc" ELSE "")>>,
               frm, <<>>, <<>>, GroupList(<<>>), <<>>, FALSE,
               IF sorted THEN Some("keyc") ELSE NoneVal, order)

\* cmplconstant(data, term, var, order): re.sub raises TypeError for a
\* constant without code
cmplconstant(d, term, var, order) ==
    IF term.code = <<>> THEN Exc("TypeError")
    ELSE
    LET name == SubSpaces(term.code[1])
    IN QStruct(<<ColumnAlias("", "'*'", "")>>,
               <<ColumnAlias("", "'" \o name \o "'", "")>>,
               TableAlias("", ""), <<>>, <<>>, GroupList(<<>>), <<>>, FALSE, NoneVal, "")

\* cmploperator(data, term, var, order)
cmploperator(d, term, var, order) ==
    IF term.name = "(/)" THEN QOperator("", "(1.0 * %s) / %s") ELSE PyNone

\* count_args(arg)
RECURSIVE count_args(_)
RECURSIVE SumCounts(_)
SumCounts(args) ==
    IF args = <<>> THEN 0 ELSE count_args(Head(args)) + SumCounts(Tail(args))

count_args(arg) == IF IsApp(arg) THEN SumCounts(arg.args) ELSE 1

\* cmplprojection(data, args, var, order): the dimensions are 0-based
cmplprojection(d, args, var, order) ==
    LET terms == SubSeq(args, 1, Len(args) - 1)
        sel == args[Len(args)].val
        cur_dim(i) == SumCounts(SubSeq(terms, 1, i))
    IN IF sel < 1 \/ sel > Len(terms) THEN Exc("UnboundLocalError")
       ELSE QProjection([k \in 1..count_args(terms[sel]) |-> cur_dim(sel - 1) + k - 1],
                        cur_dim(Len(terms)))

(***************************************************************************)
(* Composition                                                             *)
(***************************************************************************)

\* do_composition_lhs_projection(lhs, rhs)
do_composition_lhs_projection(lhs, rhs) ==
    IF ~IsQStruct(rhs) THEN Exc("AttributeError")
    ELSE IF \E i \in 1..Len(lhs.dimensions) : lhs.dimensions[i] + 1 > Len(rhs.selectscod)
    THEN Exc("IndexError")
    ELSE
    LET selectscod == [i \in 1..Len(lhs.dimensions) |-> rhs.selectscod[lhs.dimensions[i] + 1]]
    IN IF \A i \in 1..Len(selectscod) : selectscod[i].alias # "keyc"
       THEN [rhs EXCEPT !.selectscod = selectscod, !.orderby = NoneVal, !.orderdir = ""]
       ELSE [rhs EXCEPT !.selectscod = selectscod]

\* do_composition_rhs_projection(lhs, rhs): all_dimensions is a number, and
\* len() of it raises TypeError
do_composition_rhs_projection(lhs, rhs) == Exc("TypeError")

\* the keyc test of do_composition_operator on one operand
IsKeyc(arg) == arg.column = "keyc" \/ arg.alias = "keyc"

\* do_composition_operator(lhs, rhs)
do_composition_operator(lhs, rhs) ==
    IF ~IsQStruct(rhs) THEN Exc("AttributeError")
    ELSE
    LET args == rhs.selectscod
        mk(a, alias) == <<ExpressionAlias(a, alias, lhs.prefix, lhs.infix)>>
    IN IF rhs.orderby = NoneVal THEN [rhs EXCEPT !.selectscod = mk(args, "")]
       ELSE IF Len(args) < 1 THEN Exc("IndexError")
       ELSE IF ~HasTable(args[1]) THEN Exc("AttributeError")
       ELSE IF IsKeyc(args[1])
       THEN [rhs EXCEPT !.selectscod = mk([args EXCEPT ![1].alias = ""], "keyc")]
       ELSE IF Len(args) < 2 THEN Exc("IndexError")
       ELSE IF ~HasTable(args[2]) THEN Exc("AttributeError")
       ELSE IF IsKeyc(args[2])
       THEN [rhs EXCEPT !.selectscod = mk([args EXCEPT ![2].alias = ""], "keyc"),
                        !.orderdir = IF rhs.orderdir = "asc" THEN "desc" ELSE "asc"]
       ELSE [rhs EXCEPT !.selectscod = mk(args, "")]

\* Column.replace_table(table, alias)
ReplaceTable(c, table, alias) == [c EXCEPT !.table = ReplaceFirst(c.table, table, alias)]

\* JoinSpec.replace_alias(table, alias)
ReplaceAlias(j, table, alias) ==
    [j EXCEPT
        !.condlist = [i \in 1..Len(j.condlist) |->
                        Cond(ReplaceTable(j.condlist[i].lhs, table, alias),
                             ReplaceTable(j.condlist[i].rhs, table, alias))],
        !.alias = ReplaceFirst(j.alias, table, alias)]

\* the orderby and orderdir a composition takes from its two sides
ComposedOrder(lhs, rhs) ==
    IF lhs.orderby # NoneVal
    THEN [orderby |-> lhs.orderby, orderdir |-> lhs.orderdir]
    ELSE [orderby |-> rhs.orderby, orderdir |-> rhs.orderdir]

\* do_composition_one_dim(lhs, rhs)
do_composition_one_dim(lhs, rhs) ==
    IF ~IsQStruct(rhs) THEN Exc("AttributeError")
    ELSE IF lhs.frm = NoneFrm THEN Exc("AttributeError")
    ELSE
    LET frozen_qsts == rhs.frozen_qsts \o lhs.frozen_qsts
        ord == ComposedOrder(lhs, rhs)
        wheres == lhs.wheres \o rhs.wheres
    IN IF lhs.frm.table = ""
       THEN QStruct(rhs.selectsdom, lhs.selectscod, rhs.frm, rhs.joins, wheres,
                    GroupList(<<>>), frozen_qsts, FALSE, ord.orderby, ord.orderdir)
       ELSE IF Len(rhs.selectscod) < 1 THEN Exc("IndexError")
       ELSE IF rhs.selectscod[1].kind # "ColumnAlias" THEN Exc("AttributeError")
       ELSE IF lhs.selectsdom[1].kind # "ColumnAlias" THEN Exc("AttributeError")
       ELSE
       LET joinfrm == lhs.frm
           joincod == GetColumn(rhs.selectscod[1])
           joindom == GetColumn(lhs.selectsdom[1])
           trivial == ColumnEq(joincod, joindom)
           istmp == StartsWith(joinfrm.table, "tmp")
           alias == IF trivial THEN joincod.table
                    ELSE IF istmp THEN joinfrm.table
                    ELSE joincod.table \o "_" \o joincod.column
           newjoin ==
               IF trivial THEN <<>>
               ELSE IF istmp THEN <<JoinSpec(joinfrm.table, "", <<Cond(joindom, joincod)>>)>>
               ELSE <<JoinSpec(joinfrm.table, alias,
                               <<Cond([joindom EXCEPT !.table = alias], joincod)>>)>>
           lhsjoins == [i \in 1..Len(lhs.joins) |->
                           ReplaceAlias(lhs.joins[i], joinfrm.table, alias)]
       IN IF \E i \in 1..Len(lhs.selectscod) : ~HasTable(lhs.selectscod[i])
          THEN Exc("AttributeError")
          ELSE QStruct(rhs.selectsdom,
                       [i \in 1..Len(lhs.selectscod) |->
                           ReplaceTable(lhs.selectscod[i], joinfrm.table, alias)],
                       rhs.frm, rhs.joins \o newjoin \o lhsjoins, wheres,
                       GroupList(<<>>), frozen_qsts, FALSE, ord.orderby, ord.orderdir)

\* do_composition_multi_dim(lhs, rhs), with the counter
do_composition_multi_dim(lhs, rhs, n) ==
    With(Freeze(lhs, n), LAMBDA fl :
       IF IsExc(fl.v) THEN fl
       ELSE IF ~IsQStruct(rhs) THEN R(Exc("AttributeError"), fl.n)
       ELSE
       With(Freeze(rhs, fl.n), LAMBDA fr :
          IF IsExc(fr.v) THEN fr
          ELSE
          LET l == fl.v
              r == fr.v
              k == IF Len(l.selectsdom) < Len(r.selectscod)
                   THEN Len(l.selectsdom) ELSE Len(r.selectscod)
              joinspec == JoinSpec(l.frm.table, "",
                             [i \in 1..k |-> Cond(GetColumn(l.selectsdom[i]),
                                                  GetColumn(r.selectscod[i]))])
              ord == ComposedOrder(l, r)
          IN R(QStruct(r.selectsdom, l.selectscod, r.frm, <<joinspec>>, <<>>,
                       GroupList(<<>>), r.frozen_qsts \o l.frozen_qsts, FALSE,
                       ord.orderby, ord.orderdir),
               fr.n)))

\* do_composition(qsts), with the counter: the last two entries are
\* composed until one is left
RECURSIVE do_composition(_, _)
do_composition(qsts, n) ==
    IF Len(qsts) = 1 THEN R(qsts[1], n)
    ELSE
    LET rhs == qsts[Len(qsts)]
        lhs == qsts[Len(qsts) - 1]
        rest == SubSeq(qsts, 1, Len(qsts) - 2)
    IN With(IF IsQProjection(rhs) THEN R(do_composition_rhs_projection(lhs, rhs), n)
            ELSE IF IsQProjection(lhs) THEN R(do_composition_lhs_projection(lhs, rhs), n)
            ELSE IF IsQOperator(lhs) THEN R(do_composition_operator(lhs, rhs), n)
            ELSE IF ~IsQStruct(lhs) THEN R(Exc("AttributeError"), n)
            ELSE IF Len(lhs.selectsdom) = 1 THEN R(do_composition_one_dim(lhs, rhs), n)
            ELSE do_composition_multi_dim(lhs, rhs, n),
            LAMBDA new_qst :
                IF IsExc(new_qst.v) THEN new_qst
                ELSE do_composition(Append(rest, new_qst.v), new_qst.n))

(***************************************************************************)
(* The operators of the term language                                      *)
(***************************************************************************)
RECURSIVE do_cmpl(_, _, _, _, _)

\* the loop "for arg in args: qsts.append(do_cmpl(data, arg, var, order))"
\* every handler starts with; an exception ends it
RECURSIVE CmplArgs(_, _, _, _, _, _)
CmplArgs(d, args, var, order, n, qsts) ==
    IF args = <<>> THEN RL(qsts, n)
    ELSE LET c == do_cmpl(d, Head(args), var, order, n)
         IN IF IsExc(c.v) THEN Raised(c.v.cls, c.n)
            ELSE CmplArgs(d, Tail(args), var, order, c.n, Append(qsts, c.v))

\* cmplcomposition(data, args, var, order)
cmplcomposition(d, args, var, order, n) ==
    LET c == CmplArgs(d, args, var, order, n, <<>>)
    IN IF c.err # "" THEN R(Exc(c.err), c.n)
       ELSE With(FreezeQsts(c.v, c.n), LAMBDA f :
                IF f.err # "" THEN R(Exc(f.err), f.n) ELSE do_composition(f.v, f.n))

\* the dictionary newjoins of cmplproduct, as the list of its values in
\* insertion order: add the condition (dim, qdim) to the entry of qdim.table
AddNewJoin(newjoins, dim, qdim) ==
    LET cond == Cond(GetColumn(dim), GetColumn(qdim))
        at == {i \in 1..Len(newjoins) : newjoins[i].table = qdim.table}
    IN IF at = {}
       THEN Append(newjoins, JoinSpec(qdim.table, "", <<cond>>))
       ELSE LET i == SetMin(at)
            IN [newjoins EXCEPT ![i].condlist = Append(newjoins[i].condlist, cond)]

\* the double loop of cmplproduct over qsts[1:] and zip(qst.selectsdom,
\* selectsdom), from entry q and position i on; ok is FALSE when a dimension
\* without a table attribute raises AttributeError
RECURSIVE ProductJoins(_, _, _, _, _)
ProductJoins(qsts, selectsdom, q, i, newjoins) ==
    IF q > Len(qsts) THEN [ok |-> TRUE, joins |-> newjoins]
    ELSE IF i > Len(qsts[q].selectsdom) \/ i > Len(selectsdom)
    THEN ProductJoins(qsts, selectsdom, q + 1, 1, newjoins)
    ELSE LET qdim == qsts[q].selectsdom[i]
             dim == selectsdom[i]
         IN IF qdim.kind = "None" \/ dim.kind = "None"
            THEN ProductJoins(qsts, selectsdom, q, i + 1, newjoins)
            ELSE IF ~HasTable(qdim) \/ ~HasTable(dim) THEN [ok |-> FALSE, joins |-> <<>>]
            ELSE IF qdim.table # dim.table
            THEN ProductJoins(qsts, selectsdom, q, i + 1, AddNewJoin(newjoins, dim, qdim))
            ELSE ProductJoins(qsts, selectsdom, q, i + 1, newjoins)

\* the concatenation of one attribute over a list of plans
Gather(qsts, attr(_)) == Flatten([i \in 1..Len(qsts) |-> attr(qsts[i])])
JoinsOf(q) == q.joins
WheresOf(q) == q.wheres
SelectsCodOf(q) == q.selectscod
FrozenOf(q) == q.frozen_qsts

\* a product that forgets the sort columns of its factors
ProductOrderLost(qsts, ord) == ord

\* the last plan with a sort column decides the order of a product
RECURSIVE ProductOrder(_, _)
ProductOrder(qsts, ord) ==
    IF qsts = <<>> THEN ord
    ELSE ProductOrder(Tail(qsts),
            IF Head(qsts).orderby # NoneVal
            THEN [orderby |-> Head(qsts).orderby, orderdir |-> Head(qsts).orderdir]
            ELSE ord)

\* a product of projections that keeps the dimensions of its first factor
\* only
ProductOfProjectionsFirstOnly(qsts) ==
    IF \E i \in 1..Len(qsts) : ~IsQProjection(qsts[i]) THEN Exc("SyntaxError")
    ELSE QProjection(qsts[1].dimensions, qsts[1].all_dimensions)

\* the branch of cmplproduct for a first factor that is a QProjection
ProductOfProjections(qsts) ==
    IF \E i \in 1..Len(qsts) : ~IsQProjection(qsts[i]) THEN Exc("SyntaxError")
    ELSE QProjection(Flatten([i \in 1..Len(qsts) |-> qsts[i].dimensions]),
                     qsts[1].all_dimensions)

\* cmplproduct(data, args, var, order)
cmplproduct(d, args, var, order, n) ==
    LET c == CmplArgs(d, args, var, order, n, <<>>)
    IN IF c.err # "" THEN R(Exc(c.err), c.n)
       ELSE IF IsQProjection(c.v[1]) THEN R(ProductOfProjections(c.v), c.n)
       ELSE
       With(FreezeQsts(c.v, c.n), LAMBDA f :
          IF f.err # "" THEN R(Exc(f.err), f.n)
          ELSE IF \E i \in 1..Len(f.v) : ~IsQStruct(f.v[i]) THEN R(Exc("AttributeError"), f.n)
          ELSE
          LET qsts == f.v
              newjoins == ProductJoins(qsts, qsts[1].selectsdom, 2, 1, <<>>)
              ord == ProductOrder(qsts, [orderby |-> NoneVal, orderdir |-> ""])
          IN IF ~newjoins.ok THEN R(Exc("AttributeError"), f.n)
             ELSE R(QStruct(qsts[1].selectsdom, Gather(qsts, SelectsCodOf), qsts[1].frm,
                            newjoins.joins \o Gather(qsts, JoinsOf), Gather(qsts, WheresOf),
                            qsts[1].groupbys, Gather(qsts, FrozenOf), FALSE,
                            ord.orderby, ord.orderdir),
                    f.n))

\* the first dimension of a plan can be read as a column with a table
HasFirstDim(q) == Len(q.selectsdom) >= 1 /\ HasTable(q.selectsdom[1])

\* the class of the exception reading qst.selectsdom[0].table raises
FirstDimError(q) == IF Len(q.selectsdom) < 1 THEN "IndexError" ELSE "AttributeError"

\* the filters cmplinclusion appends: for each pair (lhs, rhs) of
\* consecutive arguments, Cond(l, r) over zip(lhs.selectscod, rhs.selectscod)
InclusionWheres(qsts) ==
    Flatten([p \in 1..(Len(qsts) \div 2) |->
        LET lhs == qsts[2 * p - 1].selectscod
            rhs == qsts[2 * p].selectscod
            k == IF Len(lhs) < Len(rhs) THEN Len(lhs) ELSE Len(rhs)
        IN [i \in 1..k |-> Cond(lhs[i], rhs[i])]])

\* cmplinclusion(data, args, var, order)
cmplinclusion(d, args, var, order, n) ==
    LET c == CmplArgs(d, args, var, order, n, <<>>)
    IN IF c.err # "" THEN R(Exc(c.err), c.n)
       ELSE
       With(FreezeQsts(c.v, c.n), LAMBDA f :
          IF f.err # "" THEN R(Exc(f.err), f.n)
          ELSE IF \E i \in 1..Len(f.v) : ~IsQStruct(f.v[i]) THEN R(Exc("AttributeError"), f.n)
          ELSE IF \E i \in 1..Len(f.v) : ~HasFirstDim(f.v[i])
          THEN R(Exc(FirstDimError(f.v[SetMin({i \in 1..Len(f.v) : ~HasFirstDim(f.v[i])})])),
                 f.n)
          ELSE
          LET qsts == f.v
              selectsdom == qsts[1].selectsdom
              newjoins ==
                  Flatten([i \in 1..(Len(qsts) - 1) |->
                      LET qdim == qsts[i + 1].selectsdom[1]
                      IN IF qdim.table # selectsdom[1].table
                         THEN <<JoinSpec(qdim.table, "",
                                   <<Cond(GetColumn(selectsdom[1]), GetColumn(qdim))>>)>>
                         ELSE <<>>])
          IN R(QStruct(selectsdom, selectsdom, qsts[1].frm,
                       newjoins \o Gather(qsts, JoinsOf),
                       qsts[1].wheres \o InclusionWheres(qsts),
                       GroupList(<<>>), Gather(qsts, FrozenOf), FALSE, NoneVal, ""),
               f.n))

\* cmplinverse(data, args, var, order)
cmplinverse(d, args, var, order, n) ==
    LET c == CmplArgs(d, args, var, order, n, <<>>)
    IN IF c.err # "" THEN R(Exc(c.err), c.n)
       ELSE
       With(FreezeQsts(c.v, c.n), LAMBDA f :
          IF f.err # "" THEN R(Exc(f.err), f.n)
          ELSE IF ~IsQStruct(f.v[1]) THEN R(Exc("AttributeError"), f.n)
          ELSE
          LET q == f.v[1]
          IN R(QStruct(q.selectscod, q.selectscod, q.frm, q.joins, q.wheres,
                       GroupList(<<>>), Gather(f.v, FrozenOf), TRUE, q.orderby, q.orderdir),
               f.n))

\* a grouping spec that lists the columns without a table as well
AggregationGroupbysAllColumns(selectsdom) ==
    IF selectsdom = <<>> THEN GroupAll
    ELSE GroupList([i \in 1..Len(selectsdom) |-> GetColumn(selectsdom[i])])

\* the groupbys of cmplaggregation: the columns of selectsdom that have a
\* table, or True when there is none
AggregationGroupbys(selectsdom) ==
    LET grouped == SelectSeq(selectsdom, LAMBDA s : s.table # "")
    IN IF grouped = <<>> THEN GroupAll
       ELSE GroupList([i \in 1..Len(grouped) |-> GetColumn(grouped[i])])

\* cmplaggregation(data, args, var, order)
cmplaggregation(d, args, var, order, n) ==
    LET c == CmplArgs(d, args, var, order, n, <<>>)
    IN IF c.err # "" THEN R(Exc(c.err), c.n)
       ELSE
       With(FreezeQsts(c.v, c.n), LAMBDA f :
          IF f.err # "" THEN R(Exc(f.err), f.n)
          ELSE IF ~IsQStruct(f.v[2]) \/ ~IsQStruct(f.v[1]) THEN R(Exc("AttributeError"), f.n)
          ELSE IF ~HasFirstDim(f.v[1]) THEN R(Exc(FirstDimError(f.v[1])), f.n)
          ELSE IF f.v[1].selectsdom[1].table # "" /\ ~HasFirstDim(f.v[2])
          THEN R(Exc(FirstDimError(f.v[2])), f.n)
          ELSE IF \E i \in 1..Len(f.v[1].selectscod) : f.v[1].selectscod[i].kind # "ColumnAlias"
          THEN R(Exc("AttributeError"), f.n)
          ELSE IF \E i \in 1..Len(f.v[2].selectscod) : ~HasTable(f.v[2].selectscod[i])
          THEN R(Exc("AttributeError"), f.n)
          ELSE
          LET q0 == f.v[1]
              q1 == f.v[2]
              selectsdom == q1.selectscod
              d0 == q0.selectsdom[1]
              newjoins ==
                  IF d0.table # "" /\ q1.selectsdom[1].table # ""
                     /\ d0.table # q1.selectsdom[1].table
                  THEN <<JoinSpec(d0.table, "",
                            <<Cond(GetColumn(d0), GetColumn(q1.selectsdom[1]))>>)>>
                  ELSE <<>>
              selectscod ==
                  [i \in 1..Len(q0.selectscod) |->
                      ExpressionAlias(<<GetColumn(q0.selectscod[i])>>,
                                      q0.selectscod[i].alias, "SUM", "%s")]
              groupbys == AggregationGroupbys(selectsdom)
          IN R(QStruct(selectsdom, selectscod, q1.frm,
                       newjoins \o q0.joins \o q1.joins, q0.wheres \o q1.wheres,
                       groupbys, Gather(f.v, FrozenOf), FALSE, q0.orderby, q0.orderdir),
               f.n))

\* do_cmpl(data, term, var, order), with the counter
do_cmpl(d, term, var, order, n) ==
    IF IsApp(term)
    THEN CASE term.op = "composition" -> cmplcomposition(d, term.args, var, order, n)
           [] term.op = "product"     -> cmplproduct(d, term.args, var, order, n)
           [] term.op = "inclusion"   -> cmplinclusion(d, term.args, var, order, n)
           [] term.op = "inverse"     -> cmplinverse(d, term.args, var, order, n)
           [] term.op = "aggregation" -> cmplaggregation(d, term.args, var, order, n)
           [] term.op = "projection"  -> R(cmplprojection(d, term.args, var, order), n)
           [] OTHER                   -> R(PyNone, n)
    ELSE CASE term.cls = "Variable"   -> R(cmplvariable(d, term, var, order), n)
           [] term.cls \in {"ObjectTypeRelation", "ObjectTypeInclusion"} ->
                                         R(cmplobjecttyperelation(d, term, var, order), n)
           [] term.cls = "Constant"   -> R(cmplconstant(d, term, var, order), n)
           [] term.cls = "Operator"   -> R(cmploperator(d, term, var, order), n)
           [] OTHER                   -> R(PyNone, n)

\* a cmpl that goes on from the counter the previous call left behind
cmplWithoutReset(d, term, var, order) ==
    With(do_cmpl(d, term, var, order, table_num), LAMBDA c :
        IF IsExc(c.v) THEN c
        ELSE IF ~IsQStruct(c.v) THEN R(Exc("AttributeError"), c.n)
        ELSE R(DedupFrozen(c.v), c.n))

\* cmpl(data, term, var, order): the counter is reset, the term is lowered,
\* and the plan is deduplicated.  The value is the plan (or the exception)
\* and the counter the call leaves behind.
cmpl(d, term, var, order) ==
    With(do_cmpl(d, term, var, order, 0), LAMBDA c :
        IF IsExc(c.v) THEN c
        ELSE IF ~IsQStruct(c.v) THEN R(Exc("AttributeError"), c.n)
        ELSE R(DedupFrozen(c.v), c.n))

(***************************************************************************)
(* The terms that are compiled: every family is built with Application(),  *)
(* so only applications that pass checkapplicationconstraints are kept.    *)
(***************************************************************************)
MaxFactors == 4

\* Application.__init__ accepts the term and every application inside it
RECURSIVE Constructible(_)
Constructible(t) ==
    IF ~IsApp(t) THEN TRUE
    ELSE /\ \A i \in 1..Len(t.args) : Constructible(t.args[i])
         /\ CheckApplicationConstraints(t.op, t.args)

WellFormed(T) == {t \in T : Constructible(t)}

Leaves ==
    {woontop, ligtin, inkomen, leeftijd, geslacht, gemeentenaam, eenpersoon,
     allepersonen, man, vrouw, gedeelddoor}

Measures == {inkomen, leeftijd, eenpersoon}

Pairs ==
    WellFormed({App("product", <<x, y>>) :
                   x \in Measures \cup {woontop, geslacht}, y \in Measures \cup {geslacht}})

Chains ==
    WellFormed({App("composition", <<x, y>>) : x \in Leaves, y \in Leaves})

Groupers == {woontop, geslacht, allepersonen, App("composition", <<ligtin, woontop>>),
             App("product", <<woontop, geslacht>>)}

Aggregations ==
    WellFormed({App("aggregation", <<m, g>>) : m \in Measures, g \in Groupers})

AggAtoms ==
    {App("aggregation", <<inkomen, woontop>>), App("aggregation", <<leeftijd, woontop>>)}

AggProducts ==
    WellFormed({App("product", s) : s \in UNION {[1..k -> AggAtoms] : k \in 2..MaxFactors}})

Projections ==
    WellFormed({App("projection", <<getal, getal, IntArg(k)>>) : k \in 1..2}
               \cup {App("projection", <<persoon, adres, IntArg(1)>>)})

ProjectionProducts ==
    WellFormed({App("product", <<p, q>>) :
                   p \in Projections \cup {gedeelddoor}, q \in Projections \cup {gedeelddoor}})

Inclusions ==
    WellFormed({App("inclusion", <<x, y>>) :
                   x \in {geslacht, inkomen},
                   y \in {App("composition", <<man, allepersonen>>),
                          App("composition", <<vrouw, allepersonen>>), leeftijd,
                          App("aggregation", <<inkomen, geslacht>>)}})

Inverses ==
    WellFormed({App("inverse", <<x>>) :
                   x \in {woontop, geslacht, inkomen} \cup AggAtoms \cup Pairs})

\* the inverses of products of two measures
PairInverses == {t \in Inverses : t.args[1] \in Pairs}

\* the two nestings and the n-ary form of the composition of three terms
Triples ==
    {<<gemeentenaam, ligtin, woontop>>,
     <<gedeelddoor, App("product", <<inkomen, inkomen>>),
       App("inclusion", <<inkomen, leeftijd>>)>>,
     <<gedeelddoor, App("product", <<inkomen, leeftijd>>),
       App("inclusion", <<geslacht, App("composition", <<man, allepersonen>>)>>)>>,
     <<App("aggregation", <<inkomen, geslacht>>), man, allepersonen>>,
     <<App("aggregation", <<inkomen, woontop>>), woontop,
       App("inclusion", <<inkomen, leeftijd>>)>>,
     <<App("projection", <<getal, getal, IntArg(1)>>),
       App("product", <<inkomen, leeftijd>>), App("inclusion", <<inkomen, leeftijd>>)>>}

LeftNested(t) == App("composition", <<App("composition", <<t[1], t[2]>>), t[3]>>)
RightNested(t) == App("composition", <<t[1], App("composition", <<t[2], t[3]>>)>>)
Flat(t) == App("composition", <<t[1], t[2], t[3]>>)

Nestings == WellFormed({LeftNested(t) : t \in Triples} \cup {RightNested(t) : t \in Triples}
                       \cup {Flat(t) : t \in Triples})

\* compositions over compound terms: an operator or a projection applied to
\* a product, an element applied to an inclusion or to a projection, an
\* aggregation after a map
Compounds ==
    WellFormed({App("composition", <<f, x>>) :
                   f \in {gedeelddoor} \cup Projections \cup Aggregations \cup Measures
                         \cup {woontop, gemeentenaam},
                   x \in Pairs \cup AggProducts \cup Inclusions \cup ProjectionProducts
                         \cup Projections \cup PairInverses \cup {woontop, App("composition", <<ligtin, woontop>>)}})

Terms ==
    Leaves \cup Pairs \cup Chains \cup Aggregations \cup AggProducts \cup Projections
    \cup ProjectionProducts \cup Inclusions \cup Inverses \cup Nestings \cup Compounds

\* the sort element and sort direction a caller passes: none, or one of these
SortChoices == {<<inkomen, "desc">>, <<leeftijd, "asc">>}

Inputs ==
    {[term |-> t, var |-> NoneVal, order |-> ""] : t \in Terms}
    \cup {[term |-> t, var |-> Some(s[1]), order |-> s[2]] : t \in Terms, s \in SortChoices}

(***************************************************************************)
(* The state machine: a caller compiles its term, and calls freeze,        *)
(* dedup_frozen and gen_sql on the plan it got back.                       *)
(***************************************************************************)

\* the cap on table_num under which the caller still calls freeze
MaxTableNum == 6

\* the number of cmpl calls a caller makes
MaxCalls == 2

\* the caller holds no plan yet
NoPlan == [kind |-> "NoPlan"]

\* nobody calls the term library
NoTask == [fn |-> ""]

\* the module is imported (table_num = 0) and the caller has its arguments
Init ==
    /\ table_num = 0
    /\ call \in Inputs
    /\ plan = NoPlan
    /\ last_op = "init"
    /\ last_dialect = ""
    /\ sql = ""
    /\ baseline = NoPlan
    /\ calls = 0
    /\ threads = <<>>
    /\ algebra = NoTask

\* qst = cmpl(data, term, var, order); an exception leaves the caller with
\* the exception and the counter where it was raised
CmplCall ==
    /\ calls < MaxCalls
    /\ \E c \in {cmpl(data, call.term, call.var, call.order)} :
          /\ table_num' = c.n
          /\ plan' = c.v
          /\ baseline' = IF baseline = NoPlan THEN c.v ELSE baseline
    /\ calls' = calls + 1
    /\ last_op' = "cmpl"
    /\ last_dialect' = ""
    /\ sql' = ""
    /\ UNCHANGED <<call, threads, algebra>>

\* qst.freeze()
FreezeCall ==
    /\ IsQStruct(plan)
    /\ table_num < MaxTableNum
    /\ \E f \in {Freeze(plan, table_num)} :
          /\ table_num' = f.n
          /\ plan' = IF IsExc(f.v) THEN plan ELSE f.v
    /\ last_op' = "freeze"
    /\ last_dialect' = ""
    /\ sql' = ""
    /\ UNCHANGED <<call, baseline, calls, threads, algebra>>

\* qst.dedup_frozen()
DedupCall ==
    /\ IsQStruct(plan)
    /\ \E p \in {DedupFrozen(plan)} :
          /\ ~IsExc(p)
          /\ plan' = p
    /\ last_op' = "dedup_frozen"
    /\ last_dialect' = ""
    /\ sql' = ""
    /\ UNCHANGED <<table_num, call, baseline, calls, threads, algebra>>

\* sql = qst.gen_sql(d)
GenSqlCall(d) ==
    /\ IsQStruct(plan)
    /\ GenSqlError(plan) = ""
    /\ sql' = GenSql(plan, d, FALSE)
    /\ last_dialect' = d
    /\ last_op' = "gen_sql"
    /\ UNCHANGED <<table_num, call, plan, baseline, calls, threads, algebra>>

Next ==
    \/ CmplCall
    \/ FreezeCall
    \/ DedupCall
    \/ \E d \in Dialects : GenSqlCall(d)

Spec == Init /\ [][Next]_vars

(***************************************************************************)
(* A caller that sorts a quotient: it compiles gedeelddoor after a product *)
(* and passes a sort element with each of the directions cmpl accepts,     *)
(* the default "" among them.                                              *)
(***************************************************************************)

\* the compositions of the divide operator with a product
DivisionTerms ==
    {t \in Compounds : t.args[1] = gedeelddoor /\ IsApp(t.args[2]) /\ t.args[2].op = "product"}

\* the values of the parameter order: ascending, descending and the default
SortTokens == {"asc", "desc", ""}

\* base elements a caller sorts by: Variables, one of them an immediate
\* value, an ObjectTypeRelation and a Constant
SortElements == {inkomen, leeftijd, eenpersoon, woontop, man}

SortInputs ==
    {[term |-> t, var |-> NoneVal, order |-> ""] : t \in DivisionTerms \cup SortElements}
    \cup {[term |-> t, var |-> Some(v), order |-> o] :
             t \in DivisionTerms, v \in {inkomen, leeftijd}, o \in SortTokens}
    \cup {[term |-> t, var |-> Some(v), order |-> o] :
             t \in SortElements, v \in SortElements, o \in SortTokens}

InitSort ==
    /\ table_num = 0
    /\ call \in SortInputs
    /\ plan = NoPlan
    /\ last_op = "init"
    /\ last_dialect = ""
    /\ sql = ""
    /\ baseline = NoPlan
    /\ calls = 0
    /\ threads = <<>>
    /\ algebra = NoTask

SpecSort == InitSort /\ [][Next]_vars

(***************************************************************************)
(* Two threads that call cmpl on one catalogue.  The module global         *)
(* table_num is the only thing they share.  A thread can be preempted      *)
(* between any two bytecodes; here it is preempted only between the reset  *)
(* of the counter (cmpl.py:525) and the lowering that follows (cmpl.py:526)*)
(* which reads and advances the counter at every freeze, so the behaviours *)
(* of this specification are a part of those of the program.               *)
(***************************************************************************)
ThreadIds == {"A", "B"}

\* the terms the threads compile: elements, aggregations, the range of an
\* aggregation, and products of two aggregations
ThreadTerms ==
    Measures \cup {woontop, gedeelddoor} \cup AggAtoms
    \cup WellFormed({App("inverse", <<a>>) : a \in AggAtoms})
    \cup WellFormed({App("product", <<a, b>>) : a \in AggAtoms, b \in AggAtoms})

\* a thread that is about to call cmpl(data, term)
ThreadStart(term) ==
    [pc |-> "called", term |-> term, var |-> NoneVal, order |-> "", result |-> NoPlan]

\* the line "return do_cmpl(data, term, var, order).dedup_frozen()" of cmpl,
\* run with the counter at n
cmpl_lowering(d, term, var, order, n) ==
    With(do_cmpl(d, term, var, order, n), LAMBDA c :
        IF IsExc(c.v) THEN c
        ELSE IF ~IsQStruct(c.v) THEN R(Exc("AttributeError"), c.n)
        ELSE R(DedupFrozen(c.v), c.n))

InitThreads ==
    /\ table_num = 0
    /\ call = [term |-> PyNone, var |-> NoneVal, order |-> ""]
    /\ plan = NoPlan
    /\ last_op = "init"
    /\ last_dialect = ""
    /\ sql = ""
    /\ baseline = NoPlan
    /\ calls = 0
    /\ threads \in [ThreadIds -> {ThreadStart(t) : t \in ThreadTerms}]
    /\ algebra = NoTask

\* thread t runs "table_num = 0"
ThreadReset(t) ==
    /\ threads[t].pc = "called"
    /\ table_num' = 0
    /\ threads' = [threads EXCEPT ![t].pc = "reset"]
    /\ UNCHANGED <<call, plan, last_op, last_dialect, sql, baseline, calls, algebra>>

\* thread t runs the lowering and the deduplication, and cmpl returns
ThreadLower(t) ==
    /\ threads[t].pc = "reset"
    /\ \E c \in {cmpl_lowering(data, threads[t].term, threads[t].var, threads[t].order,
                               table_num)} :
          /\ table_num' = c.n
          /\ threads' = [threads EXCEPT ![t].pc = "returned", ![t].result = c.v]
    /\ UNCHANGED <<call, plan, last_op, last_dialect, sql, baseline, calls, algebra>>

NextThreads ==
    \/ \E t \in ThreadIds : ThreadReset(t)
    \/ \E t \in ThreadIds : ThreadLower(t)

SpecThreads == InitThreads /\ [][NextThreads]_vars

(***************************************************************************)
(* A caller of the term library: it constructs an Application from an      *)
(* operation and a list of arguments, or compares two terms with equals.   *)
(***************************************************************************)

\* the longest argument list a caller passes
MaxArgs == 4

Operations ==
    {"composition", "product", "inclusion", "selection", "inverse", "range",
     "aggregation", "projection", "Cartesian product", "functional type"}

\* types, elements and an integer literal
ArgAtoms == {persoon, getal, inkomen, leeftijd, woontop, ligtin, IntArg(3)}

ArgLists == UNION {[1..k -> ArgAtoms] : k \in 0..MaxArgs}

\* Kinds beside those of the domain model: a second object type with the
\* name of persoon, a Variable that was given the id of the object type
\* persoon, and an ObjectTypeRelation that was given the id of the Variable
\* inkomen
persoon_synonym == TypeKind("ObjectType", "persoon", "u91")
persoon_variable == ElementKind("Variable", "persoon", "u01", persoon, getal)
inkomen_relation == ElementKind("ObjectTypeRelation", "inkomen", "u12", persoon, getal)

TestKinds == {persoon, persoon_synonym, persoon_variable, inkomen, inkomen_relation,
              leeftijd, getal}

TestApplications ==
    WellFormed(
        {App("product", <<x, y>>) : x, y \in {inkomen, inkomen_relation, leeftijd}}
        \cup {App("product", <<inkomen, leeftijd, inkomen>>),
              App("composition", <<ligtin, woontop>>),
              App("inverse", <<inkomen>>),
              App("inverse", <<App("composition", <<ligtin, woontop>>)>>)}
        \cup {App("aggregation", <<m, App("composition", <<ligtin, woontop>>)>>) :
                 m \in {inkomen, leeftijd}}
        \cup {App("Cartesian product", <<p, getal>>) : p \in {persoon, persoon_synonym}}
        \cup {App("projection", <<p, getal, IntArg(k)>>) :
                 p \in {persoon, persoon_synonym}, k \in 1..2})

EqualsTerms == TestKinds \cup TestApplications

ApplicationTask(op, args) ==
    [fn |-> "Application", op |-> op, args |-> args, returned |-> FALSE, value |-> NoPlan]

EqualsTask(self, term) ==
    [fn |-> "equals", self |-> self, term |-> term, returned |-> FALSE, value |-> NoPlan]

\* Application(op, args): the new Application, or the exception raised
ApplicationInit(op, args) ==
    IF ConstraintsRaise(op, args) # "" THEN Exc(ConstraintsRaise(op, args))
    ELSE IF CheckApplicationConstraints(op, args) THEN App(op, args)
    ELSE Exc("InvalidApplication")

InitTerms ==
    /\ table_num = 0
    /\ call = [term |-> PyNone, var |-> NoneVal, order |-> ""]
    /\ plan = NoPlan
    /\ last_op = "init"
    /\ last_dialect = ""
    /\ sql = ""
    /\ baseline = NoPlan
    /\ calls = 0
    /\ threads = <<>>
    /\ algebra \in {ApplicationTask(op, args) : op \in Operations, args \in ArgLists}
                   \cup {EqualsTask(a, b) : a \in EqualsTerms, b \in EqualsTerms}

\* Application(op, args)
ApplicationCall ==
    /\ algebra.fn = "Application"
    /\ ~algebra.returned
    /\ algebra' = [algebra EXCEPT !.returned = TRUE,
                                  !.value = ApplicationInit(algebra.op, algebra.args)]
    /\ UNCHANGED <<table_num, call, plan, last_op, last_dialect, sql, baseline, calls, threads>>

\* self.equals(term)
EqualsCall ==
    /\ algebra.fn = "equals"
    /\ ~algebra.returned
    /\ algebra' = [algebra EXCEPT !.returned = TRUE,
                                  !.value = TermEquals(algebra.self, algebra.term)]
    /\ UNCHANGED <<table_num, call, plan, last_op, last_dialect, sql, baseline, calls, threads>>

NextTerms ==
    \/ ApplicationCall
    \/ EqualsCall

SpecTerms == InitTerms /\ [][NextTerms]_vars

(***************************************************************************)
(* Reading a rendered text                                                 *)
(***************************************************************************)

\* the number of occurrences of t in s
Count(s, t) == Cardinality(Occurrences(s, t))

\* the statements of an output: every statement ends with an empty line
RECURSIVE CutAt(_, _, _)
CutAt(s, from, ends) ==
    IF ends = {} THEN <<>>
    ELSE LET i == SetMin(ends)
         IN <<SubSeq(s, from, i - 1)>> \o CutAt(s, i + 2, ends \ {i})

Statements(s) == CutAt(s, 1, Occurrences(s, "\n\n"))

\* what a caller sees of the value a cmpl call left: the exception raised,
\* the exception of rendering, or the text in both dialects
Observed(p) ==
    IF ~IsQStruct(p) THEN <<"raised", p.cls>>
    ELSE IF GenSqlError(p) # "" THEN <<"unrenderable", GenSqlError(p)>>
    ELSE <<"plan", GenSql(p, DIALECT_MYSQL, FALSE), GenSql(p, DIALECT_SQLSERVER, FALSE)>>

\* the temp-table names of the children of a plan, in list order
ChildNames(p) == [i \in 1..Len(p.frozen_qsts) |-> p.frozen_qsts[i].tablename]

\* the names tmp0 .. tmp<n-1>
FirstNames(n) == {"tmp" \o ToString(k) : k \in 0..(n - 1)}

(***************************************************************************)
(* Properties of compilation, freezing and the counter                     *)
(***************************************************************************)

\* C1: cmpl is deterministic.  A later cmpl call with the same catalogue,
\* term, sort element and sort direction leaves the caller with what the
\* first call left: the same exception, or a plan that renders to the same
\* text in both dialects, temp-table names included.
C1_Deterministic ==
    (last_op = "cmpl" /\ calls >= 2) => Observed(plan) = Observed(baseline)

\* a second call has returned a plan with several materialized children
C1_Witness ==
    /\ last_op = "cmpl"
    /\ calls = 2
    /\ IsQStruct(plan)
    /\ Len(plan.frozen_qsts) >= 2
    /\ GenSqlError(plan) = ""

\* C2 as stated: every cmpl call returns a plan that renders in both
\* dialects, or raises the error of a product that mixes projections with
\* other factors (SyntaxError).
C2_PlanOrMixedProjectionError ==
    last_op = "cmpl" =>
        \/ IsQStruct(plan) /\ GenSqlError(plan) = ""
        \/ plan = Exc("SyntaxError")

\* C3: the counter is 0 before the first call; the children of the plan
\* the caller holds have pairwise distinct names, each minted from a value
\* the counter had since the reset; a freeze advances the counter by one and
\* its child is named after the value the counter had; and a cmpl call that
\* froze anything, the second call as much as the first, minted tmp0 first.
C3_Counter ==
    /\ last_op = "init" => table_num = 0
    /\ IsQStruct(plan) =>
          /\ \A i, j \in 1..Len(plan.frozen_qsts) :
                i # j => ChildNames(plan)[i] # ChildNames(plan)[j]
          /\ Range(ChildNames(plan)) \subseteq FirstNames(table_num)
    /\ (last_op = "freeze" /\ IsQStruct(plan)) =>
          /\ plan.frozen_qsts # <<>>
          /\ ChildNames(plan)[Len(plan.frozen_qsts)] = "tmp" \o ToString(table_num - 1)
          /\ plan.frm.table = "tmp" \o ToString(table_num - 1)
    /\ (last_op = "cmpl" /\ IsQStruct(plan) /\ table_num > 0) =>
          "tmp0" \in Range(ChildNames(plan))

\* a second cmpl call has minted tmp0 and tmp1 again, and a freeze by the
\* caller has then minted the next name
C3_Witness ==
    /\ calls = 2
    /\ last_op = "freeze"
    /\ IsQStruct(plan)
    /\ table_num = 3
    /\ ChildNames(plan) = <<"tmp0", "tmp1", "tmp2">>

(***************************************************************************)
(* Properties of dedup_frozen                                              *)
(***************************************************************************)

\* the digits of s from position i on
RECURSIVE DigitsFrom(_, _)
DigitsFrom(s, i) ==
    IF IsDigitAt(s, i) THEN SubSeq(s, i, i) \o DigitsFrom(s, i + 1) ELSE ""

\* the temp-table names a text refers to
TmpRefs(s) == {"tmp" \o DigitsFrom(s, i + 3) : i \in TmpMatches(s)}

\* the own body of a child, as dedup_frozen compares it
Body(c) == QStructRepr(c)

\* the statement of the plan itself, without those of its children
OwnStatement(p) == QStructRepr([p EXCEPT !.frozen_qsts = <<>>])

\* C4 as stated: after dedup_frozen no two children have the same body,
\* and every reference to a temp table, in the children and in the root,
\* names a child that was kept: the references to a dropped child were all
\* rewritten to the kept first child of its group.
C4_ReferencesRewrittenToKept ==
    (last_op \in {"cmpl", "dedup_frozen"} /\ IsQStruct(plan)) =>
        /\ \A i, j \in 1..Len(plan.frozen_qsts) :
              i # j => Body(plan.frozen_qsts[i]) # Body(plan.frozen_qsts[j])
        /\ \A i \in 1..Len(plan.frozen_qsts) :
              TmpRefs(Body(plan.frozen_qsts[i])) \subseteq Range(ChildNames(plan))
        /\ TmpRefs(OwnStatement(plan)) \subseteq Range(ChildNames(plan))

\* C5: dedup_frozen is idempotent.  Applied to a plan that dedup_frozen has
\* already deduplicated (by cmpl, or by the caller), it returns the plan as
\* it is: the same children and the same table references.
C5_DedupIdempotent ==
    (last_op \in {"cmpl", "dedup_frozen"} /\ IsQStruct(plan)) => DedupFrozen(plan) = plan

\* the caller has applied dedup_frozen again to a plan from which cmpl's
\* dedup_frozen had dropped duplicates of two different groups
C5_Witness ==
    /\ last_op = "dedup_frozen"
    /\ IsQStruct(plan)
    /\ Len(plan.frozen_qsts) = 2
    /\ table_num = 4
    /\ calls = 1

(***************************************************************************)
(* Properties of the rendered text                                         *)
(***************************************************************************)

\* the plans whose statements make up the output, in the order of the output
StatementPlans(p) == p.frozen_qsts \o <<p>>

\* the last statement of a text
FinalStatement(s) == LET stmts == Statements(s) IN stmts[Len(stmts)]

\* the row cap of a dialect
CapOf(dialect) == IF dialect = DIALECT_MYSQL THEN "LIMIT 5" ELSE "TOP 5"

\* C6: the output of a plan with a sort column holds exactly one ORDER BY
\* and exactly one row cap of 5, LIMIT 5 for MySQL and TOP 5 for T-SQL, both
\* in the final statement; the output of a plan without a sort column holds
\* no ORDER BY and no row cap.
C6_OneOrderByOneCap ==
    last_op = "gen_sql" =>
        LET final == FinalStatement(sql)
        IN IF plan.orderby # NoneVal
           THEN /\ Count(sql, "ORDER BY") = 1
                /\ Count(sql, CapOf(last_dialect)) = 1
                /\ Count(sql, "LIMIT") + Count(sql, "TOP") = 1
                /\ Count(final, "ORDER BY") = 1
                /\ Count(final, CapOf(last_dialect)) = 1
           ELSE /\ Count(sql, "ORDER BY") = 0
                /\ Count(sql, "LIMIT") = 0
                /\ Count(sql, "TOP") = 0

\* a sorted plan with materialized children has been rendered for T-SQL
C6_Witness ==
    /\ last_op = "gen_sql"
    /\ last_dialect = DIALECT_SQLSERVER
    /\ plan.orderby # NoneVal
    /\ Len(plan.frozen_qsts) >= 2
    /\ Count(sql, "TOP 5") = 1

\* c is one of the grouping columns of q
IsGroupingColumn(c, q) ==
    /\ HasTable(c)
    /\ \E i \in 1..Len(q.groupbys.cols) :
          /\ HasTable(q.groupbys.cols[i])
          /\ q.groupbys.cols[i].table = c.table
          /\ q.groupbys.cols[i].column = c.column

\* c renders as SUM(...)
IsSumWrapped(c) == c.kind = "ExpressionAlias" /\ StartsWith(ExprSql(c), "SUM(")

\* C7: in a rendered output, the statement of a plan or child with a
\* non-empty grouping spec holds exactly one GROUP BY when the spec is a list
\* of columns and none when it is the aggregate-all flag, and every codomain
\* column of that plan or child is a grouping column or is wrapped in SUM.
C7_GroupByAndSum ==
    last_op = "gen_sql" =>
        LET stmts == Statements(sql)
        IN /\ Len(stmts) = Len(StatementPlans(plan))
           /\ \A i \in 1..Len(StatementPlans(plan)) :
                 LET q == StatementPlans(plan)[i]
                 IN GroupbysTruthy(q) =>
                       /\ Count(stmts[i], "GROUP BY") = IF q.groupbys.all THEN 0 ELSE 1
                       /\ \A k \in 1..Len(q.selectscod) :
                             IsGroupingColumn(q.selectscod[k], q) \/ IsSumWrapped(q.selectscod[k])

\* the rendered plan has a child grouped by two columns and a child that
\* aggregates everything
C7_Witness ==
    /\ last_op = "gen_sql"
    /\ \E i \in 1..Len(plan.frozen_qsts) :
          /\ ~plan.frozen_qsts[i].groupbys.all
          /\ Len(plan.frozen_qsts[i].groupbys.cols) = 2
          /\ Count(Statements(sql)[i], "SUM(") >= 1

\* s without any occurrence of t
RECURSIVE RemoveAll(_, _)
RemoveAll(s, t) ==
    IF Occurrences(s, t) = {} THEN s ELSE RemoveAll(ReplaceFirst(s, t, ""), t)

\* a T-SQL statement with the three differences of syntax undone: the INTO
\* clause becomes a CREATE TEMPORARY TABLE line, TOP 5 becomes LIMIT 5, and
\* the prefixes of the temp-table references are dropped
FromTSql(s) ==
    LET into == Occurrences(s, " INTO #tmp")
        name == "tmp" \o DigitsFrom(s, SetMin(into) + 10)
        created == IF into = {} THEN s
                   ELSE "CREATE TEMPORARY TABLE " \o name \o "\n"
                        \o ReplaceFirst(s, " INTO #" \o name, "")
        capped == IF Occurrences(created, "TOP 5 ") = {} THEN created
                  ELSE ReplaceFirst(created, "TOP 5 ", "") \o " LIMIT 5"
    IN RemoveAll(capped, "#")

\* the text gen_sql returned and the text of the same plan for the other
\* dialect have the same number of statements, and the i-th statements are
\* equal once the three differences of syntax are undone
SameStatements ==
    last_op = "gen_sql" =>
        LET text(d) == IF d = last_dialect THEN sql ELSE GenSql(plan, d, FALSE)
            mysql == Statements(text(DIALECT_MYSQL))
            tsql == Statements(text(DIALECT_SQLSERVER))
        IN /\ Len(mysql) = Len(tsql)
           /\ \A i \in 1..Len(mysql) : FromTSql(tsql[i]) = mysql[i]

\* C8: the outputs of a plan for the two dialects have the same number of
\* statements in the same order, the i-th of which differ only in CREATE
\* TEMPORARY TABLE line versus INTO clause, LIMIT 5 versus TOP 5, and the
\* '#' before temp-table references; and a gen_sql call leaves the plan as
\* it was.
C8_DialectsAgree ==
    /\ []SameStatements
    /\ [][last_op' = "gen_sql" => plan' = plan]_vars

\* a sorted plan with a materialized child has been rendered for T-SQL, with
\* an INTO clause, a TOP 5 and prefixed references in the output
C8_Witness ==
    /\ last_op = "gen_sql"
    /\ last_dialect = DIALECT_SQLSERVER
    /\ plan.orderby # NoneVal
    /\ plan.frozen_qsts # <<>>
    /\ Count(sql, " INTO #tmp0") = 1
    /\ Count(sql, "TOP 5 ") = 1
    /\ Count(sql, "#") >= 3

\* every match of tmp<digits> in s is preceded by exactly one '#'
PrefixedOnce(s) ==
    \A i \in TmpMatches(s) :
        /\ i > 1
        /\ SubSeq(s, i - 1, i - 1) = "#"
        /\ i > 2 => SubSeq(s, i - 2, i - 2) # "#"

\* C9 as stated: in the T-SQL output of the root, the references in the
\* final statement carry '#' exactly once, and inside the statement that
\* materializes a child the name of that child is bare.
C9_MaterializedNameBare ==
    (last_op = "gen_sql" /\ last_dialect = DIALECT_SQLSERVER) =>
        LET stmts == Statements(sql)
        IN /\ PrefixedOnce(stmts[Len(stmts)])
           /\ \A i \in 1..Len(plan.frozen_qsts) :
                 /\ Count(stmts[i], plan.frozen_qsts[i].tablename) >= 1
                 /\ Count(stmts[i], "#" \o plan.frozen_qsts[i].tablename) = 0

\* C9, amended: in the T-SQL output of the root every reference to a temp
\* table carries '#' exactly once, in the final statement and in every
\* materialization statement, the name after INTO included; the name is
\* bare only in the text gen_sql returns for a child on its own
\* (create_table = True), and in the MySQL output.
C9_EveryReferencePrefixedOnce ==
    last_op = "gen_sql" =>
        IF last_dialect = DIALECT_SQLSERVER
        THEN /\ PrefixedOnce(sql)
             /\ Count(sql, "#") = Cardinality(TmpMatches(sql))
             /\ \A i \in 1..Len(plan.frozen_qsts) :
                   /\ Count(sql, " INTO #" \o plan.frozen_qsts[i].tablename) = 1
                   /\ Count(GenSql(plan.frozen_qsts[i], DIALECT_SQLSERVER, TRUE), "#") = 0
        ELSE Count(sql, "#") = 0

\* a plan with two children has been rendered for T-SQL
C9_Witness ==
    /\ last_op = "gen_sql"
    /\ last_dialect = DIALECT_SQLSERVER
    /\ Len(plan.frozen_qsts) = 2
    /\ Count(sql, " INTO #tmp") = 2
    /\ Count(sql, "#") >= 4

(***************************************************************************)
(* Properties of composition                                               *)
(***************************************************************************)

\* the parts of a plan on which two equivalent plans agree: the source
\* table, the joins, the filters, and the domain and codomain columns
PlanShape(p) == <<p.frm, p.joins, p.wheres, p.selectsdom, p.selectscod>>

\* C10 as stated: for chainable A, B, C, the plan cmpl returns for
\* (A o B) o C is equivalent to the plan it returns for A o (B o C): both
\* are plans, with the same source table, joins, filters and final domain
\* and codomain columns.
C10_CompositionAssociative ==
    \A t \in Triples :
        (last_op = "cmpl" /\ call.term = LeftNested(t)) =>
            LET right == cmpl(data, RightNested(t), call.var, call.order).v
            IN /\ IsQStruct(plan) <=> IsQStruct(right)
               /\ (IsQStruct(plan) /\ IsQStruct(right)) => PlanShape(plan) = PlanShape(right)

(***************************************************************************)
(* Properties of freeze                                                    *)
(***************************************************************************)

\* p is a frozen passthrough: it selects simple column references out of the
\* temp table of its last child, and has no joins, filters or grouping
IsPassthrough(p) ==
    /\ IsQStruct(p)
    /\ p.frozen_qsts # <<>>
    /\ LET child == p.frozen_qsts[Len(p.frozen_qsts)]
       IN /\ p.frm = TableAlias(child.tablename, "")
          /\ p.selectsdom = [i \in 1..Len(child.selectsdom) |->
                                ColumnAlias(child.tablename, child.selectsdom[i].alias, "")]
          /\ p.selectscod = [i \in 1..Len(child.selectscod) |->
                                ColumnAlias(child.tablename, child.selectscod[i].alias, "")]
    /\ p.joins = <<>>
    /\ p.wheres = <<>>
    /\ p.groupbys = GroupList(<<>>)

\* C11 as stated: a freeze of a plan that is already a frozen passthrough
\* mints no temp-table name, adds no child, and leaves the plan rendering to
\* the same text.
C11_FreezeOfPassthroughNoOp ==
    [][(last_op' = "freeze" /\ IsPassthrough(plan)) =>
          /\ table_num' = table_num
          /\ plan'.frozen_qsts = plan.frozen_qsts
          /\ Observed(plan') = Observed(plan)]_vars

(***************************************************************************)
(* Properties of concurrent compilation                                    *)
(***************************************************************************)

\* C12 as stated: when the steps of two cmpl calls interleave, each call
\* returns what it returns when it runs alone; no returned plan has two
\* children with the same temp-table name; and every temp table a returned
\* plan refers to is one of its own children.
C12_InterleavedCallsReturnSoloPlans ==
    \A t \in DOMAIN threads :
        threads[t].pc = "returned" =>
            LET r == threads[t].result
                solo == cmpl(data, threads[t].term, threads[t].var, threads[t].order).v
            IN /\ r = solo
               /\ IsQStruct(r) =>
                     /\ \A i, j \in 1..Len(r.frozen_qsts) :
                           i # j => ChildNames(r)[i] # ChildNames(r)[j]
                     /\ TmpRefs(QStructRepr(r)) \subseteq Range(ChildNames(r))

(***************************************************************************)
(* Properties of the term algebra                                          *)
(***************************************************************************)

\* C13 as stated: when the argument list violates the law of the operation
\* (arity, kind of the arguments, equal domains, a path for composition, the
\* range of the index of a projection), Application(op, args) raises
\* InvalidApplication and nothing else; when the law holds, the Application
\* is constructed from op and args, from which its type is derived.
C13_InvalidApplicationOrConstructed ==
    (algebra.fn = "Application" /\ algebra.returned) =>
        algebra.value = IF CheckApplicationConstraints(algebra.op, algebra.args)
                        THEN App(algebra.op, algebra.args)
                        ELSE Exc("InvalidApplication")

\* the law of Inclusion and Selection: at least two arguments, an even number
\* of them, all elements with the domain of the first, and every pair of an
\* argument at an even (0-based) position and its successor has equal
\* codomains
PairedLaw(args) ==
    /\ Len(args) >= 2
    /\ Len(args) % 2 = 0
    /\ AllElements(args)
    /\ \A i \in 1..Len(args) : TermEquals(Dom(args[i]), Dom(args[1]))
    /\ \A k \in 1..(Len(args) \div 2) :
          TermEquals(Cod(args[2 * k - 1]), Cod(args[2 * k]))

\* C14 as stated: an Inclusion or Selection Application is constructed if
\* and only if its arguments satisfy that law, also when one argument
\* occurs at more than one position.
C14_PairedCodomains ==
    (/\ algebra.fn = "Application"
     /\ algebra.returned
     /\ algebra.op \in {"inclusion", "selection"}) =>
        (algebra.value = App(algebra.op, algebra.args) <=> PairedLaw(algebra.args))

\* C15 as stated: Kind.equals of two Kinds is true if and only if they are of
\* the same concrete variant and carry the same id; equal names with
\* different ids are unequal, and different variants with one id are unequal.
C15_KindEqualsVariantAndId ==
    (/\ algebra.fn = "equals"
     /\ algebra.returned
     /\ IsKind(algebra.self)
     /\ IsKind(algebra.term)) =>
        (algebra.value = TRUE <=>
            (algebra.self.cls = algebra.term.cls /\ algebra.self.id = algebra.term.id))

\* structural equality of an Application a and a term b: b is an Application
\* with the operator of a, as many arguments, and pairwise-equal arguments;
\* two integer literals are equal by value, a term and an integer literal
\* never, two Kinds by Kind.equals
RECURSIVE StructurallyEqual(_, _)
StructurallyEqual(a, b) ==
    /\ IsApp(b)
    /\ a.op = b.op
    /\ Len(a.args) = Len(b.args)
    /\ \A i \in 1..Len(a.args) :
          IF IsInt(a.args[i]) /\ IsInt(b.args[i]) THEN a.args[i].val = b.args[i].val
          ELSE IF IsInt(a.args[i]) \/ IsInt(b.args[i]) THEN FALSE
          ELSE IF IsApp(a.args[i]) THEN StructurallyEqual(a.args[i], b.args[i])
          ELSE KindEquals(a.args[i], b.args[i])

\* C16: a.equals(b) of an Application a returns exactly the structural
\* equality of a and b; it returns True for b = a, and the call in the other
\* direction, b.equals(a), returns the same value.
C16_ApplicationEqualsStructural ==
    (/\ algebra.fn = "equals"
     /\ algebra.returned
     /\ IsApp(algebra.self)) =>
        /\ algebra.value = StructurallyEqual(algebra.self, algebra.term)
        /\ (algebra.term = algebra.self) => algebra.value = TRUE
        /\ IsApp(algebra.term) => algebra.value = TermEquals(algebra.term, algebra.self)

\* an Application with an Application among its arguments was compared with
\* an Application and found equal
C16_Witness ==
    /\ algebra.fn = "equals"
    /\ algebra.returned
    /\ IsApp(algebra.self)
    /\ IsApp(algebra.term)
    /\ \E i \in 1..Len(algebra.self.args) : IsApp(algebra.self.args[i])
    /\ algebra.value = TRUE

(***************************************************************************)
(* Properties of the lowering of products and compositions                 *)
(***************************************************************************)

\* the caller compiled a product
ProductCompiled == last_op = "cmpl" /\ IsApp(call.term) /\ call.term.op = "product"

\* what the factors of the product the caller compiled lower to, in order
FactorPlans == CmplArgs(data, call.term.args, call.var, call.order, 0, <<>>)

\* what the product the caller compiled lowers to
LoweredProduct == do_cmpl(data, call.term, call.var, call.order, 0).v

\* the dimension sequences of a list of Projection descriptors, one after
\* the other
RECURSIVE ConcatDimensions(_)
ConcatDimensions(qsts) ==
    IF qsts = <<>> THEN <<>> ELSE Head(qsts).dimensions \o ConcatDimensions(Tail(qsts))

\* C17: when the first factor of a product lowers to a Projection
\* descriptor, the product lowers to a Projection descriptor with the
\* dimensions of all factors in order if every factor is one, and otherwise
\* the call raises the mixed-projection error (SyntaxError) and the caller
\* gets no plan.
C17_ProductOfProjections ==
    ProductCompiled =>
        With(FactorPlans, LAMBDA c :
            (c.err = "" /\ IsQProjection(c.v[1])) =>
                IF \A i \in 1..Len(c.v) : IsQProjection(c.v[i])
                THEN /\ IsQProjection(LoweredProduct)
                     /\ LoweredProduct.dimensions = ConcatDimensions(c.v)
                ELSE /\ LoweredProduct = Exc("SyntaxError")
                     /\ plan = Exc("SyntaxError"))

\* a product of two different projections was compiled
C17_Witness ==
    /\ ProductCompiled
    /\ FactorPlans.err = ""
    /\ \A i \in 1..Len(FactorPlans.v) : IsQProjection(FactorPlans.v[i])
    /\ FactorPlans.v[1].dimensions # FactorPlans.v[2].dimensions
    /\ Len(LoweredProduct.dimensions) = 2

\* the caller compiled the divide operator after one operand
DivisionCompiled ==
    /\ last_op = "cmpl"
    /\ IsApp(call.term)
    /\ call.term.op = "composition"
    /\ Len(call.term.args) = 2
    /\ call.term.args[1] = gedeelddoor

\* the plan of the operand as cmplcomposition hands it to
\* do_composition_operator: lowered, and frozen if it groups
DivisionOperand ==
    With(CmplArgs(data, call.term.args, call.var, call.order, 0, <<>>), LAMBDA c :
        FreezeQsts(c.v, c.n).v[2])

\* C18 as stated: dividing a plan with two codomain columns leaves one
\* computed column; if the plan has a sort column and only its second
\* column (the denominator) carries the sort key, the computed column
\* carries it and the rendered direction is the opposite of the operand's
\* (for the directions "asc", "desc" and ""); if the first column (the
\* numerator) carries it, the computed column carries it and the rendered
\* direction is that of the operand.
C18_DenominatorInvertsDirection ==
    (DivisionCompiled /\ IsQStruct(plan)) =>
        With(DivisionOperand, LAMBDA rhs :
            Len(rhs.selectscod) = 2 =>
                /\ Len(plan.selectscod) = 1
                /\ plan.selectscod[1].kind = "ExpressionAlias"
                /\ rhs.orderby # NoneVal =>
                      IF IsKeyc(rhs.selectscod[1])
                      THEN /\ plan.selectscod[1].alias = "keyc"
                           /\ OrderDir(plan) = OrderDir(rhs)
                      ELSE IsKeyc(rhs.selectscod[2]) =>
                              /\ plan.selectscod[1].alias = "keyc"
                              /\ OrderDir(plan) # OrderDir(rhs))

(***************************************************************************)
(* Properties of the lowering of base elements                             *)
(***************************************************************************)

\* the Kinds at the leaves of a construction tree
RECURSIVE TreeLeaves(_)
TreeLeaves(term) ==
    IF IsApp(term) THEN UNION {TreeLeaves(term.args[i]) : i \in 1..Len(term.args)}
    ELSE IF IsKind(term) THEN {term}
    ELSE {}

\* the construction tree of the i-th design of the catalogue contains a
\* Variable, ObjectTypeRelation or Constant with this name
DesignNames(i, name) ==
    \E k \in TreeLeaves(data[i].constr) :
        k.cls \in {"Variable", "ObjectTypeRelation", "Constant"} /\ k.name = name

\* the i-th design is the first, in catalogue order, that contains the name
FirstDesignNaming(i, name) ==
    DesignNames(i, name) /\ \A j \in 1..(i - 1) : ~DesignNames(j, name)

\* a plan of one domain column table.table_id and one codomain column
\* table.column, with the table as source and no joins, filters, grouping
\* or children
PlanOverTable(p, table, column) ==
    /\ IsQStruct(p)
    /\ Len(p.selectsdom) = 1
    /\ p.selectsdom[1].table = table
    /\ p.selectsdom[1].column = table \o "_id"
    /\ Len(p.selectscod) = 1
    /\ p.selectscod[1].table = table
    /\ p.selectscod[1].column = column
    /\ p.frm.table = table
    /\ p.joins = <<>>
    /\ p.wheres = <<>>
    /\ p.groupbys.cols = <<>>
    /\ ~p.groupbys.all
    /\ p.frozen_qsts = <<>>

\* the caller compiled a Variable or an ObjectTypeRelation
BaseElementCompiled ==
    /\ last_op = "cmpl"
    /\ IsKind(call.term)
    /\ call.term.cls \in {"Variable", "ObjectTypeRelation"}

IsImmediate(term) ==
    (IsKind(term.codomain) /\ term.codomain.name = "1") \/ StartsWith(term.name, "een")

\* the name the table of an element is looked up by: the column name (every
\* space an underscore) for an ObjectTypeRelation, the name for a Variable
LookupName(term) ==
    IF term.cls = "ObjectTypeRelation" THEN SubSpaces(term.name) ELSE term.name

HoldsColumns(kept, former) ==
    /\ Len(kept) = Len(former)
    /\ \A i \in 1..Len(former) :
          /\ kept[i] = [former[i] EXCEPT !.alias = kept[i].alias]
          /\ former[i].alias # "" => kept[i].alias = former[i].alias

\* the columns select, one by one, the aliases of the child's columns out
\* of the child's table
ReferencesColumns(cols, child, childcols) ==
    /\ Len(cols) = Len(childcols)
    /\ \A i \in 1..Len(cols) :
          /\ cols[i].table = child.tablename
          /\ cols[i].column = childcols[i].alias

\* what C20 says of the plan q a freeze leaves, given the plan p it found,
\* but for the sort column
FreezeSnapshots(p, q) ==
    /\ Len(q.frozen_qsts) = Len(p.frozen_qsts) + 1
    /\ SubSeq(q.frozen_qsts, 1, Len(p.frozen_qsts)) = p.frozen_qsts
    /\ With(q.frozen_qsts[Len(q.frozen_qsts)], LAMBDA child :
          /\ HoldsColumns(child.selectsdom, p.selectsdom)
          /\ HoldsColumns(child.selectscod, p.selectscod)
          /\ child.frm = p.frm
          /\ child.joins = p.joins
          /\ child.wheres = p.wheres
          /\ child.groupbys = p.groupbys
          /\ child.distinct = p.distinct
          /\ child.frozen_qsts = <<>>
          /\ q.frm.table = child.tablename
          /\ ReferencesColumns(q.selectsdom, child, child.selectsdom)
          /\ ReferencesColumns(q.selectscod, child, child.selectscod)
          /\ Len(q.selectsdom) = Len(p.selectsdom)
          /\ Len(q.selectscod) = Len(p.selectscod)
          /\ q.joins = <<>>
          /\ q.wheres = <<>>
          /\ q.groupbys.cols = <<>>
          /\ ~q.groupbys.all)

\* C20 as stated: a freeze appends exactly one child, which holds the former
\* select columns, source, joins, filters, grouping and distinct flag and
\* has no children; the plan selects the child's column aliases from the
\* new temp table, has no joins, filters or grouping, and has no sort column.
C20_FreezeSnapshotsAndClearsSort ==
    [][(last_op' = "freeze" /\ plan' # plan) =>
          /\ FreezeSnapshots(plan, plan')
          /\ plan'.orderby = NoneVal]_vars

(***************************************************************************)
(* Properties of the lowering of aggregations                              *)
(***************************************************************************)

\* the caller compiled alpha(value, group)
AggregationCompiled ==
    /\ last_op = "cmpl"
    /\ IsApp(call.term)
    /\ call.term.op = "aggregation"

\* what value and group lower to, before cmplaggregation combines them
AggregationInputs == CmplArgs(data, call.term.args, call.var, call.order, 0, <<>>)

\* what the aggregation lowers to, before cmpl deduplicates it
LoweredAggregation == do_cmpl(data, call.term, call.var, call.order, 0).v

\* the child is the materialized body of the plan q
MaterializedFrom(child, q) ==
    /\ child.frm = q.frm
    /\ child.joins = q.joins
    /\ child.wheres = q.wheres
    /\ child.groupbys = q.groupbys
    /\ child.distinct = q.distinct
    /\ HoldsColumns(child.selectsdom, q.selectsdom)
    /\ HoldsColumns(child.selectscod, q.selectscod)

\* C21 as stated: the lowering of alpha(value, group) has a materialized
\* child for value and another one for group, whatever their grouping and
\* distinct flags; its source is the temp table of group and its summed
\* columns are read from the temp table of value.
C21_AggregationFreezesBothInputs ==
    (AggregationCompiled /\ AggregationInputs.err = "" /\ IsQStruct(LoweredAggregation)) =>
        With(LoweredAggregation, LAMBDA q :
            \E i, j \in 1..Len(q.frozen_qsts) :
                /\ i # j
                /\ MaterializedFrom(q.frozen_qsts[i], AggregationInputs.v[1])
                /\ MaterializedFrom(q.frozen_qsts[j], AggregationInputs.v[2])
                /\ q.frm.table = q.frozen_qsts[j].tablename
                /\ \A k \in 1..Len(q.selectscod) :
                      q.selectscod[k].args[1].table = q.frozen_qsts[i].tablename)

\* value and group as cmplaggregation combines them: lowered, and frozen
\* where they group or are distinct
AggregationOperands ==
    With(AggregationInputs, LAMBDA c : FreezeQsts(c.v, c.n).v)

\* the columns, without their aliases, of the select columns that have a
\* table, in order
RECURSIVE TableColumns(_)
TableColumns(cols) ==
    IF cols = <<>> THEN <<>>
    ELSE (IF Head(cols).table # "" THEN <<Column(Head(cols).table, Head(cols).column)>>
          ELSE <<>>) \o TableColumns(Tail(cols))

\* C22 as stated: the grouping spec of the lowering of alpha(value, group)
\* lists the non-empty domain columns of group, and is aggregate-all
\* exactly when group has no table.
C22_GroupingByDomainColumns ==
    (AggregationCompiled /\ AggregationInputs.err = "" /\ IsQStruct(LoweredAggregation)) =>
        With(AggregationOperands[2], LAMBDA group :
            /\ LoweredAggregation.groupbys.all <=> (group.frm = NoneFrm \/ group.frm.table = "")
            /\ ~LoweredAggregation.groupbys.all =>
                  LoweredAggregation.groupbys.cols = TableColumns(group.selectsdom))

\* C22, amended: the grouping spec lists the codomain columns of group that
\* have a table (they are the domain columns of the result), and is
\* aggregate-all exactly when no codomain column of group has a table.
C22_GroupingByGroupCodomain ==
    (AggregationCompiled /\ AggregationInputs.err = "" /\ IsQStruct(LoweredAggregation)) =>
        With(AggregationOperands[2], LAMBDA group :
            /\ LoweredAggregation.groupbys.all <=>
                  \A i \in 1..Len(group.selectscod) : group.selectscod[i].table = ""
            /\ LoweredAggregation.groupbys.cols =
                  IF LoweredAggregation.groupbys.all THEN <<>>
                  ELSE TableColumns(group.selectscod)
            /\ IsQStruct(plan) => plan.groupbys = LoweredAggregation.groupbys)

\* an aggregation over a group whose only codomain column is a literal was
\* compiled: it aggregates all
C22_Witness ==
    /\ AggregationCompiled
    /\ IsQStruct(plan)
    /\ plan.groupbys.all
    /\ AggregationOperands[2].frm # NoneFrm
    /\ AggregationOperands[2].frm.table # ""

(***************************************************************************)
(* Properties of the sort element                                          *)
(***************************************************************************)

\* the caller compiled a Variable, an ObjectTypeRelation or a Constant and
\* got a plan
BasePlanCompiled ==
    /\ last_op = "cmpl"
    /\ IsKind(call.term)
    /\ call.term.cls \in {"Variable", "ObjectTypeRelation", "Constant"}
    /\ IsQStruct(plan)

\* C23 as stated: the plan of a base element that equals the sort element
\* has one codomain column, aliased keyc, and its sort column and direction
\* are set; the plan of any other base element has no sort column.
C23_SortElementMarked ==
    BasePlanCompiled =>
        IF call.var # NoneVal /\ TermEquals(call.var[1], call.term)
        THEN /\ Len(plan.selectscod) = 1
             /\ plan.selectscod[1].alias = "keyc"
             /\ plan.orderby = Some("keyc")
             /\ plan.orderdir = call.order
        ELSE plan.orderby = NoneVal

(***************************************************************************)
(* Properties of one composition step                                      *)
(***************************************************************************)

\* the two sides of the composition the caller compiled, as do_composition
\* gets them: lowered, and frozen where they group or are distinct
CompositionOperands ==
    With(CmplArgs(data, call.term.args, call.var, call.order, 0, <<>>), LAMBDA c :
        IF c.err # "" THEN <<>> ELSE FreezeQsts(c.v, c.n).v)

\* what the composition lowers to, before cmpl deduplicates it
LoweredComposition == do_cmpl(data, call.term, call.var, call.order, 0).v

\* the caller compiled a composition of two plans, the left one with one
\* domain column, and got a plan
PlainStepCompiled ==
    /\ last_op = "cmpl"
    /\ IsApp(call.term)
    /\ call.term.op = "composition"
    /\ Len(call.term.args) = 2
    /\ Len(CompositionOperands) = 2
    /\ IsQStruct(CompositionOperands[1])
    /\ IsQStruct(CompositionOperands[2])
    /\ Len(CompositionOperands[1].selectsdom) = 1
    /\ IsQStruct(LoweredComposition)

\* two select columns are the same column of the same table
Coincide(a, b) == a.table = b.table /\ a.column = b.column

\* no join is made: the left plan has no table, or its domain column is the
\* codomain column of the right plan
NoJoinNeeded(lhs, rhs) ==
    lhs.frm.table = "" \/ Coincide(lhs.selectsdom[1], rhs.selectscod[1])

\* the alias the table of the left plan goes by after the step: the table of
\* the right codomain column for a trivial join, its own name for a temp
\* table, and else the right codomain column as table_column
StepAlias(lhs, rhs) ==
    IF Coincide(lhs.selectsdom[1], rhs.selectscod[1]) THEN rhs.selectscod[1].table
    ELSE IF SubSeq(lhs.frm.table, 1, 3) = "tmp" THEN lhs.frm.table
    ELSE rhs.selectscod[1].table \o "_" \o rhs.selectscod[1].column

\* every element of s occurs in t
AllIn(s, t) == \A i \in 1..Len(s) : \E j \in 1..Len(t) : t[j] = s[i]

\* C24: the step keeps the source and the domain columns of R and the
\* codomain columns of L; unless no join is needed it adds exactly one join
\* of the table of L on L's domain column = R's codomain column; the
\* result has every join of R, every join of L under the alias of L's
\* table, every filter and every child of both; and the codomain columns
\* that named the table of L name its alias.
C24_PlainCompositionStep ==
    PlainStepCompiled =>
        With(CompositionOperands, LAMBDA ops :
        With(LoweredComposition, LAMBDA q :
            LET lhs == ops[1]
                rhs == ops[2]
                a == StepAlias(lhs, rhs)
                added == IF NoJoinNeeded(lhs, rhs) THEN 0 ELSE 1
            IN /\ q.frm = rhs.frm
               /\ q.selectsdom = rhs.selectsdom
               /\ Len(q.selectscod) = Len(lhs.selectscod)
               /\ \A i \in 1..Len(lhs.selectscod) :
                     /\ q.selectscod[i].column = lhs.selectscod[i].column
                     /\ (lhs.frm.table # "" /\ lhs.selectscod[i].table = lhs.frm.table) =>
                           q.selectscod[i].table = a
               /\ Len(q.joins) = Len(rhs.joins) + added + Len(lhs.joins)
               /\ SubSeq(q.joins, 1, Len(rhs.joins)) = rhs.joins
               /\ added = 1 =>
                     With(q.joins[Len(rhs.joins) + 1], LAMBDA j :
                         /\ j.table = lhs.frm.table
                         /\ Len(j.condlist) = 1
                         /\ j.condlist[1].lhs.column = lhs.selectsdom[1].column
                         /\ j.condlist[1].lhs.table = a
                         /\ Coincide(j.condlist[1].rhs, rhs.selectscod[1]))
               /\ \A i \in 1..Len(lhs.joins) :
                     With(q.joins[Len(rhs.joins) + added + i], LAMBDA j :
                         /\ j.table = lhs.joins[i].table
                         /\ Len(j.condlist) = Len(lhs.joins[i].condlist)
                         /\ \A k \in 1..Len(j.condlist) :
                               /\ j.condlist[k].lhs.column = lhs.joins[i].condlist[k].lhs.column
                               /\ j.condlist[k].rhs.column = lhs.joins[i].condlist[k].rhs.column
                               /\ lhs.joins[i].condlist[k].lhs.table = lhs.frm.table =>
                                     j.condlist[k].lhs.table = a
                               /\ lhs.joins[i].condlist[k].rhs.table = lhs.frm.table =>
                                     j.condlist[k].rhs.table = a)
               /\ Len(q.wheres) = Len(lhs.wheres) + Len(rhs.wheres)
               /\ AllIn(lhs.wheres, q.wheres)
               /\ AllIn(rhs.wheres, q.wheres)
               /\ Len(q.frozen_qsts) = Len(lhs.frozen_qsts) + Len(rhs.frozen_qsts)
               /\ AllIn(lhs.frozen_qsts, q.frozen_qsts)
               /\ AllIn(rhs.frozen_qsts, q.frozen_qsts)))

(***************************************************************************)
(* Properties of the lowering of a product of plans                        *)
(***************************************************************************)

\* the factors of the product the caller compiled, as cmplproduct combines
\* them: lowered, and frozen where they group or are distinct
ProductOperands ==
    With(FactorPlans, LAMBDA c :
        IF c.err # "" \/ IsQProjection(c.v[1]) THEN <<>> ELSE FreezeQsts(c.v, c.n).v)

\* the caller compiled a product of plans and the lowering gave a plan
PlanProductCompiled ==
    /\ ProductCompiled
    /\ Len(ProductOperands) >= 2
    /\ \A i \in 1..Len(ProductOperands) : IsQStruct(ProductOperands[i])
    /\ IsQStruct(LoweredProduct)

\* the codomain columns of a list of plans, one plan after the other
RECURSIVE ConcatCodomains(_)
ConcatCodomains(qsts) ==
    IF qsts = <<>> THEN <<>> ELSE Head(qsts).selectscod \o ConcatCodomains(Tail(qsts))

\* the number of joins the factors bring along
RECURSIVE CountJoins(_)
CountJoins(qsts) ==
    IF qsts = <<>> THEN 0 ELSE Len(Head(qsts).joins) + CountJoins(Tail(qsts))

\* the tables of the domain columns of the later factors that differ from
\* the table of the domain column of the first factor at that position
OtherDomainTables(ops) ==
    {ops[i].selectsdom[k].table :
        <<i, k>> \in {p \in (2..Len(ops)) \X (1..Len(ops[1].selectsdom)) :
                        /\ p[2] <= Len(ops[p[1]].selectsdom)
                        /\ ops[p[1]].selectsdom[p[2]].table # ops[1].selectsdom[p[2]].table}}

ProjectionOfPlanCompiled ==
    /\ last_op = "cmpl"
    /\ IsApp(call.term)
    /\ call.term.op = "composition"
    /\ Len(call.term.args) = 2
    /\ Len(CompositionOperands) = 2
    /\ IsQProjection(CompositionOperands[1])
    /\ IsQStruct(CompositionOperands[2])

\* the columns of cols at the 0-based indices dims, in the order of dims
Selected(cols, dims) == [i \in 1..Len(dims) |-> cols[dims[i] + 1]]

\* every index of dims is an index of cols
Selectable(cols, dims) == \A i \in 1..Len(dims) : dims[i] + 1 \in 1..Len(cols)

\* C26: the composition of a projection with a plan is the plan with its
\* codomain columns at the selected indices, in the order of selection,
\* and with its sort column and direction if a kept column carries the sort
\* key (as alias, or as column name after materialization) and else
\* without a sort column.
C26_ProjectionKeepsSelectedAndSort ==
    ProjectionOfPlanCompiled =>
        With(CompositionOperands[1], LAMBDA lhs :
        With(CompositionOperands[2], LAMBDA rhs :
        With(LoweredComposition, LAMBDA q :
            /\ Selectable(rhs.selectscod, lhs.dimensions)
            /\ IsQStruct(q)
            /\ q.selectscod = Selected(rhs.selectscod, lhs.dimensions)
            /\ IF \E i \in 1..Len(q.selectscod) : IsKeyc(q.selectscod[i])
               THEN q.orderby = rhs.orderby /\ q.orderdir = rhs.orderdir
               ELSE q.orderby = NoneVal)))

(***************************************************************************)
(* Properties of the composition of a plan with a projection               *)
(***************************************************************************)

\* the caller compiled the composition of a plan with a projection
PlanOfProjectionCompiled ==
    /\ last_op = "cmpl"
    /\ IsApp(call.term)
    /\ call.term.op = "composition"
    /\ Len(call.term.args) = 2
    /\ Len(CompositionOperands) = 2
    /\ IsQStruct(CompositionOperands[1])
    /\ IsQProjection(CompositionOperands[2])

\* the 1-based places of dims that hold the 0-based dimension k
PlacesOf(dims, k) == {i \in 1..Len(dims) : dims[i] = k}

\* C27: the composition of a plan with a projection is the plan with one
\* domain slot per dimension of the projected product: the i-th domain
\* column of the plan at the i-th selected dimension, and a placeholder
\* at every dimension that is not selected.
C27_PlanOfProjectionWidensDomain ==
    PlanOfProjectionCompiled =>
        With(CompositionOperands[1], LAMBDA lhs :
        With(CompositionOperands[2], LAMBDA rhs :
        With(LoweredComposition, LAMBDA q :
            /\ IsQStruct(q)
            /\ Len(q.selectsdom) = rhs.all_dimensions
            /\ \A k \in 1..Len(q.selectsdom) :
                  IF PlacesOf(rhs.dimensions, k - 1) = {}
                  THEN q.selectsdom[k] = NoneVal
                  ELSE \E i \in PlacesOf(rhs.dimensions, k - 1) :
                          q.selectsdom[k] = lhs.selectsdom[i]
            /\ q.selectscod = lhs.selectscod
            /\ q.frm = lhs.frm)))

(***************************************************************************)
(* Properties of the order of the materialized children                    *)
(***************************************************************************)

\* the names of the children of p before the i-th
EarlierNames(p, i) == {ChildNames(p)[j] : j \in 1..(i - 1)}

\* C28: in a plan cmpl returned, every temp table the body of a child
\* refers to is the table of an earlier child, and every temp table the
\* final statement refers to is the table of a child.
C28_TempTablesDefinedBeforeUse ==
    (last_op = "cmpl" /\ IsQStruct(plan)) =>
        /\ \A i \in 1..Len(plan.frozen_qsts) :
              TmpRefs(Body(plan.frozen_qsts[i])) \subseteq EarlierNames(plan, i)
        /\ TmpRefs(OwnStatement(plan)) \subseteq Range(ChildNames(plan))

(***************************************************************************)
(* Properties of the sort column of a plan                                 *)
(***************************************************************************)

\* a select column carries the sort key, as its alias or as its column name
CarriesSortKey(c) ==
    \/ "alias" \in DOMAIN c /\ c.alias = "keyc"
    \/ "column" \in DOMAIN c /\ c.column = "keyc"

\* the select list of a plan: its domain columns, then its codomain columns
SelectList(q) == q.selectsdom \o q.selectscod

\* C29: a plan cmpl returned with a sort column selects a column that
\* carries the sort key.
C29_SortColumnSelected ==
    (last_op = "cmpl" /\ IsQStruct(plan) /\ plan.orderby # NoneVal) =>
        \E i \in 1..Len(SelectList(plan)) : CarriesSortKey(SelectList(plan)[i])

(***************************************************************************)
(* Properties of a plan that was frozen                                    *)
(***************************************************************************)

\* the operands of the composition the caller compiled, as lowered, before
\* freeze_qsts
CompositionArguments ==
    With(CmplArgs(data, call.term.args, call.var, call.order, 0, <<>>), LAMBDA c :
        IF c.err # "" THEN <<>> ELSE c.v)

\* the caller compiled the composition of a projection or an operator with
\* a plan that freeze_qsts froze, and the step returned a plan
FrozenOperandReturned ==
    /\ last_op = "cmpl"
    /\ IsApp(call.term)
    /\ call.term.op = "composition"
    /\ Len(call.term.args) = 2
    /\ Len(CompositionArguments) = 2
    /\ IsQProjection(CompositionArguments[1]) \/ IsQOperator(CompositionArguments[1])
    /\ MustFreeze(CompositionArguments[2])
    /\ IsQStruct(LoweredComposition)

\* C30: a plan that was frozen, by the caller or by freeze_qsts before a
\* composition step that returns it, has no grouping spec and no distinct
\* flag: freeze_qsts would not freeze it again.
C30_FrozenPlanNotFrozenAgain ==
    /\ (last_op = "freeze" /\ IsQStruct(plan)) => ~MustFreeze(plan)
    /\ FrozenOperandReturned => ~MustFreeze(LoweredComposition)

====
